---- MODULE Spec2Model ----
(***************************************************************************)
(* critbit89: a crit-bit tree over NUL-terminated byte strings.            *)
(*                                                                         *)
(* The model is the co-allocating variant (src/critbit.c lines 1-530):     *)
(* every key lives in one heap block that holds a cb_node_t cell followed  *)
(* by the key bytes.  The heap is modelled explicitly (addresses, cells,   *)
(* key bytes, the set of live blocks), so that the pointer surgery of      *)
(* insert and delete and the releases of delete and clear are the code's.  *)
(*                                                                         *)
(* A cb_child_t holds two pointers (node, leaf) of which type[] selects    *)
(* one; the model keeps the selected one, the other is never read.         *)
(***************************************************************************)
EXTENDS Integers, Sequences, FiniteSets, TLC

\* ---------------------------------------------------------------- constants

TYPE_LEAF == 1
TYPE_NODE == 2
TYPE_EMPTY == 3
PREFIX_MASK == 255
UNUSED_NODE == 1
ENOMEM == 12

\* ------------------------------------------------------------------- bounds

\* The keys the operations are called with are the first NumKeys entries of
\* KeySeq; walks are also called with the remaining entries as prefixes.
NumKeys == 5
\* The visit callback can ask to stop at its 1st .. MaxStop-th invocation.
MaxStop == 2
\* The quota of the counting allocator (blocks it hands out before failing).
MaxOutstanding == 3
\* The calls made on two variants side by side use the first NumKeysBoth
\* entries of KeySeq as keys, and every entry as a walk prefix.
NumKeysBoth == 5
\* The calls on two variants side by side go on until MaxNoMemory of them
\* were made with an allocator that returns NULL.
MaxNoMemory == 1

\* "", "1", "11", "12", "13", "2", "111", "a", "121", "3", "1112"
KeySeq ==
  << <<>>, <<49>>, <<49, 49>>, <<49, 50>>, <<49, 51>>, <<50>>,
     <<49, 49, 49>>, <<97>>, <<49, 50, 49>>, <<51>>, <<49, 49, 49, 50>> >>

Min(a, b) == IF a < b THEN a ELSE b

Keys == {KeySeq[i] : i \in 1..Min(NumKeys, Len(KeySeq))}
Prefixes == {KeySeq[i] : i \in 1..Len(KeySeq)}

\* --------------------------------------------------------------------- heap

NULL == 0
\* address of the sentinel node that lives on the stack of each operation
SENTINEL == -1
\* one address per key, and one more for the block of a duplicate insert
NumAddr == Len(KeySeq) + 1
Addr == 1..NumAddr

KeyIndex(k) == CHOOSE i \in 1..Len(KeySeq) : KeySeq[i] = k

\* malloc: a block that is not live; the one reserved for key k when it is
\* free, else the highest free address
malloc_std(k, liveSet) ==
  IF KeyIndex(k) \notin liveSet
  THEN KeyIndex(k)
  ELSE CHOOSE a \in Addr \ liveSet : \A c \in Addr \ liveSet : c <= a

\* memset(newnode, 0, sizeof(*newnode)); also what a freed cell reads as
ZeroNode == [child |-> <<NULL, NULL>>, type |-> <<0, 0>>, byte |-> 0, otherbits |-> 0]

\* ----------------------------------------------------------- byte arithmetic

Bit(x, i) == (x \div (2 ^ i)) % 2

\* a | b and a ^ b on bytes
BitOr(a, b) ==
  LET f(i) == IF Bit(a, i) + Bit(b, i) > 0 THEN 2 ^ i ELSE 0
  IN f(0) + f(1) + f(2) + f(3) + f(4) + f(5) + f(6) + f(7)

BitXor(a, b) ==
  LET f(i) == IF Bit(a, i) # Bit(b, i) THEN 2 ^ i ELSE 0
  IN f(0) + f(1) + f(2) + f(3) + f(4) + f(5) + f(6) + f(7)

\* a faulty direction, which starts from direction = 1
Direction_FromOne(n, ubytes) ==
  IF n.byte < Len(ubytes)
  THEN (1 + BitOr(n.otherbits, ubytes[n.byte + 1])) \div 256
  ELSE 1

\* direction = 0; if (p->byte < ulen) direction = (1 + (p->otherbits | c)) >> 8
Direction(n, ubytes) ==
  IF n.byte < Len(ubytes)
  THEN (1 + BitOr(n.otherbits, ubytes[n.byte + 1])) \div 256
  ELSE 0

\* -------------------------------------------------------------------- state

VARIABLES
  root,         \* tree->root: the pointer root_type selects
  root_type,    \* tree->root_type
  cell,         \* heap: the cb_node_t at the start of each block
  bytes,        \* heap: the key bytes that follow the cell in each block
  live,         \* heap: the blocks allocated and not released
  allocator,    \* tree->malloc / tree->free: "std" or "counting"
  outstanding,  \* the counting allocator's baton: blocks handed out - taken back
  ref,          \* the reference set of the churn test (randombuf)
  pc,           \* the caller: "idle" between calls, "returned" holding a result
  call,         \* the last call: operation and arguments
  res,          \* its return value
  visited,      \* the keys its callback was invoked on, in order
  salvage,      \* the branch of delete's memory salvage it took
  released,     \* the release functions it called
  requested,    \* the number of times it called tree->malloc
  fault,        \* the memory faults it committed
  compared,     \* what insert's comparison of two keys came to
  two,          \* the tree of the two-allocation variant, and its last result
  nomem,        \* the calls so far in which an allocator of a tree did not work
  before        \* the tree and the reference set as they were before it

vars == <<root, root_type, cell, bytes, live, allocator, outstanding, ref,
          pc, call, res, visited, salvage, released, requested, fault, compared, two, nomem, before>>

\* the heap as an operation sees it: the blocks, and its own sentinel with
\* sentinel.child[0] = tree->root; sentinel.type[0] = tree->root_type
SentinelOver(r, t, c) ==
  [a \in Addr \cup {SENTINEL} |->
     IF a = SENTINEL
     THEN [child |-> <<r, NULL>>, type |-> <<t, 0>>, byte |-> 0, otherbits |-> 0]
     ELSE c[a]]

WithSentinel == SentinelOver(root, root_type, cell)

\* what a caller can compare the outcome of its call with
Snapshot ==
  [root |-> root, root_type |-> root_type, cell |-> cell, bytes |-> bytes,
   live |-> live, outstanding |-> outstanding, ref |-> ref]

\* while (p->type[direction] == TYPE_NODE) { p = p->child[direction].node; ... }
RECURSIVE Descend(_, _, _, _)
Descend(h, p, direction, ubytes) ==
  IF h[p].type[direction + 1] = TYPE_NODE
  THEN LET q == h[p].child[direction + 1]
       IN Descend(h, q, Direction(h[q], ubytes), ubytes)
  ELSE <<p, direction>>

\* a faulty comparison, which leaves out ulen == llen: memcmp(ubytes, leaf, ulen)
SameKey_NoLength(ubytes, leaf) ==
  Len(leaf) >= Len(ubytes) /\ SubSeq(leaf, 1, Len(ubytes)) = ubytes

\* a faulty comparison, which compares over the leaf's length only:
\* memcmp(ubytes, leaf, llen)
SameKey_LeafLength(ubytes, leaf) ==
  Len(ubytes) >= Len(leaf) /\ SubSeq(ubytes, 1, Len(leaf)) = leaf

\* (ulen == llen) && (memcmp(ubytes, leaf, ulen) == 0)
SameKey(ubytes, leaf) == Len(ubytes) = Len(leaf) /\ ubytes = leaf

cb_tree_contains_i(h, b, ubytes) ==
  IF h[SENTINEL].type[1] = TYPE_EMPTY THEN 0
  ELSE LET e == Descend(h, SENTINEL, 0, ubytes)
           leaf == b[h[e[1]].child[e[2] + 1]]
       IN IF SameKey(ubytes, leaf) THEN 1 ELSE 0

cb_tree_contains(str) == cb_tree_contains_i(WithSentinel, bytes, str)

\* ------------------------------------------------------------------- insert

\* the leaf a descent ended at
LeafOf(h, e) == h[e[1]].child[e[2] + 1]

\* a faulty prefix case, which takes the sides of the two keys the other way
PrefixCase_Swapped(llen, ulen) ==
  IF llen < ulen
  THEN [clen |-> llen, newdirection |-> 1, newotherbits |-> PREFIX_MASK]
  ELSE IF ulen < llen
  THEN [clen |-> ulen, newdirection |-> 0, newotherbits |-> PREFIX_MASK]
  ELSE [clen |-> ulen, newdirection |-> 1, newotherbits |-> 0]

\* clen, newdirection and newotherbits as set before the comparison loop:
\* the leaf could be a prefix of the new key, the new key a prefix of the
\* leaf, or neither (newdirection is then not set, and not read)
PrefixCase(llen, ulen) ==
  IF llen < ulen
  THEN [clen |-> llen, newdirection |-> 0, newotherbits |-> PREFIX_MASK]
  ELSE IF ulen < llen
  THEN [clen |-> ulen, newdirection |-> 1, newotherbits |-> PREFIX_MASK]
  ELSE [clen |-> ulen, newdirection |-> 1, newotherbits |-> 0]

\* the first position below clen at which the two keys differ, else clen
FirstDiff(leaf, ubytes, clen) ==
  LET D == {i \in 0..(clen - 1) : leaf[i + 1] # ubytes[i + 1]}
  IN IF D = {} THEN clen ELSE CHOOSE i \in D : \A j \in D : i <= j

\* x |= x >> n
Smear(x, n) == BitOr(x, x \div n)

\* (x ^ 255) | (x >> 1): set just the bits above msb, move msb out of the way
ClearTop(x) == BitOr(BitXor(x, 255), x \div 2)

\* a faulty mask, which leaves out newotherbits |= newotherbits >> 2
CritMask_TwoSmears(a, b) == ClearTop(Smear(Smear(BitXor(a, b), 2), 16))

\* newotherbits of two differing bytes
CritMask(a, b) == ClearTop(Smear(Smear(Smear(BitXor(a, b), 2), 4), 16))

\* a faulty side: newdirection taken for the new key instead of the leaf
DifferentByte_NewSide(c, newbyte, clen, mask) ==
  [newbyte |-> newbyte, clen |-> clen, newotherbits |-> mask,
   newdirection |-> 1 - ((1 + BitOr(mask, c)) \div 256)]

\* different_byte_found: the mask, and the side of the existing leaf
DifferentByte(c, newbyte, clen, mask) ==
  [newbyte |-> newbyte, clen |-> clen, newotherbits |-> mask,
   newdirection |-> (1 + BitOr(mask, c)) \div 256]

\* the comparison loop, which ran to newbyte
CompareAt(leaf, ubytes, pre, newbyte) ==
  IF newbyte < pre.clen
  THEN DifferentByte(leaf[newbyte + 1], newbyte, pre.clen,
                     CritMask(leaf[newbyte + 1], ubytes[newbyte + 1]))
  ELSE [newbyte |-> newbyte, clen |-> pre.clen,
        newotherbits |-> pre.newotherbits, newdirection |-> pre.newdirection]

\* compare the new key with the leaf
CompareKeys(leaf, ubytes) ==
  CompareAt(leaf, ubytes, PrefixCase(Len(leaf), Len(ubytes)),
            FirstDiff(leaf, ubytes, Min(Len(leaf), Len(ubytes))))

\* a faulty duplicate test, which leaves out newotherbits == 0
IsDuplicate_NoMask(newbyte, clen, newotherbits) == newbyte = clen

\* if (newbyte == clen && newotherbits == 0) return 1
IsDuplicate(newbyte, clen, newotherbits) == newbyte = clen /\ newotherbits = 0

\* a faulty order, which compares the masks as they are stored
MaskOrder_Stored(otherbits) == otherbits

\* (otherbits + 1) & 0xff: the prefix mask sorts before every bit mask
MaskOrder(otherbits) == (otherbits + 1) % 256

\* a faulty second descent, which goes on to the leaf and splices there
RECURSIVE SpliceDescend_ToLeaf(_, _, _, _, _, _)
SpliceDescend_ToLeaf(h, p, direction, newbyte, newotherbits, ubytes) ==
  IF h[p].type[direction + 1] = TYPE_NODE
  THEN LET q == h[p].child[direction + 1]
       IN SpliceDescend_ToLeaf(h, q, Direction(h[q], ubytes), newbyte,
                               newotherbits, ubytes)
  ELSE <<p, direction>>

\* the second descent of insert: stops above the first node that sorts after
\* (newbyte, newotherbits)
RECURSIVE SpliceDescend(_, _, _, _, _, _)
SpliceDescend(h, p, direction, newbyte, newotherbits, ubytes) ==
  IF h[p].type[direction + 1] = TYPE_NODE
  THEN LET q == h[p].child[direction + 1]
       IN IF h[q].byte >= newbyte
             /\ (h[q].byte > newbyte \/ MaskOrder(h[q].otherbits) > newotherbits)
          THEN <<p, direction>>
          ELSE SpliceDescend(h, q, Direction(h[q], ubytes), newbyte,
                             newotherbits, ubytes)
  ELSE <<p, direction>>

\* a faulty new node, which records the offset after the differing byte
NewNode_NextByte(c, x, child, type) ==
  [byte |-> c.newbyte + 1,
   otherbits |-> c.newotherbits % 256,
   child |-> IF c.newdirection = 0 THEN <<child, x>> ELSE <<x, child>>,
   type |-> IF c.newdirection = 0 THEN <<type, TYPE_LEAF>> ELSE <<TYPE_LEAF, type>>]

\* newnode: the new leaf x on side 1 - newdirection, the child that sat at the
\* splice point on side newdirection
NewNode(c, x, child, type) ==
  [byte |-> c.newbyte,
   otherbits |-> c.newotherbits % 256,
   child |-> IF c.newdirection = 0 THEN <<child, x>> ELSE <<x, child>>,
   type |-> IF c.newdirection = 0 THEN <<type, TYPE_LEAF>> ELSE <<TYPE_LEAF, type>>]

\* a faulty splice, which links the new node on the other side of p
Splice_OtherSide(h, x, c, p, direction) ==
  [h EXCEPT ![x] = NewNode(c, x, h[p].child[direction + 1], h[p].type[direction + 1]),
            ![p].child[2 - direction] = x,
            ![p].type[2 - direction] = TYPE_NODE]

\* a faulty splice, which leaves out p->type[direction] = TYPE_NODE
Splice_NoType(h, x, c, p, direction) ==
  [h EXCEPT ![x] = NewNode(c, x, h[p].child[direction + 1], h[p].type[direction + 1]),
            ![p].child[direction + 1] = x]

\* the splice at p->child[direction]
Splice(h, x, c, p, direction) ==
  [h EXCEPT ![x] = NewNode(c, x, h[p].child[direction + 1], h[p].type[direction + 1]),
            ![p].child[direction + 1] = x,
            ![p].type[direction + 1] = TYPE_NODE]

SpliceAt(h, x, c, s) == Splice(h, x, c, s[1], s[2])

\* the part of insert that follows the comparison
InsertCompared(h, x, ubytes, c) ==
  IF IsDuplicate(c.newbyte, c.clen, c.newotherbits)
  THEN [res |-> 1, h |-> h]
  ELSE [res |-> 0,
        h |-> SpliceAt(h, x, c,
                       SpliceDescend(h, SENTINEL, 0, c.newbyte,
                                     MaskOrder(c.newotherbits), ubytes))]

\* cb_tree_insert_node(tree, newnode, ubytes): the return value and the heap
\* (cells and sentinel) it leaves; h holds the cells, b the key bytes, and x is
\* the address of the new block, whose cell is newnode and whose bytes ubytes
cb_tree_insert_node(h, b, x) ==
  IF h[SENTINEL].type[1] = TYPE_EMPTY
  THEN [res |-> 0,
        h |-> [h EXCEPT ![x] = [ZeroNode EXCEPT !.otherbits = UNUSED_NODE],
                        ![SENTINEL].child[1] = x,
                        ![SENTINEL].type[1] = TYPE_LEAF]]
  ELSE InsertCompared(h, x, b[x],
                      CompareKeys(b[LeafOf(h, Descend(h, SENTINEL, 0, b[x]))], b[x]))

\* the tree variables after an operation that left the heap h
Stored(h) == [a \in Addr |-> h[a]]

\* what a released block reads as afterwards
Scrub(c, freed) == [a \in Addr |-> IF a \in freed THEN ZeroNode ELSE c[a]]
ScrubBytes(b, freed) == [a \in Addr |-> IF a \in freed THEN <<>> ELSE b[a]]

\* the end of cb_tree_insert: if (res != 0) free(buffer)
InsertDone(h, b1, lv, buffer, r) ==
  IF r.res # 0
  THEN [res |-> r.res, h |-> h, b |-> ScrubBytes(b1, {buffer}), live |-> lv,
        mallocs |-> 1, requested |-> 1, released |-> {"free"}]
  ELSE [res |-> r.res, h |-> r.h, b |-> b1, live |-> lv \cup {buffer},
        mallocs |-> 1, requested |-> 1, released |-> {}]

\* memcpy(x, str, ulen + 1)
Memcpy(b, buffer, str) == [b EXCEPT ![buffer] = str]

\* cb_tree_insert once tree->malloc has returned buffer
InsertBuffer(h, b, lv, str, buffer) ==
  IF buffer = NULL
  THEN [res |-> ENOMEM, h |-> h, b |-> b, live |-> lv,
        mallocs |-> 0, requested |-> 1, released |-> {}]
  ELSE InsertDone(h, Memcpy(b, buffer, str), lv, buffer,
                  cb_tree_insert_node(h, Memcpy(b, buffer, str), buffer))

\* a faulty insert, which looks the key up before it allocates, and so
\* answers AlreadyPresent without having called tree->malloc
cb_tree_insert_ProbeFirst(h, b, lv, str, ok) ==
  IF cb_tree_contains_i(h, b, str) = 1
  THEN [res |-> 1, h |-> h, b |-> b, live |-> lv, mallocs |-> 0,
        requested |-> 0, released |-> {}]
  ELSE InsertBuffer(h, b, lv, str, IF ok THEN malloc_std(str, lv) ELSE NULL)

\* cb_tree_insert(tree, str) on the heap h (cells), b (key bytes), lv (live
\* blocks); ok: whether tree->malloc returns a block
cb_tree_insert(h, b, lv, str, ok) ==
  InsertBuffer(h, b, lv, str, IF ok THEN malloc_std(str, lv) ELSE NULL)

\* ------------------------------------------------------------------- delete

\* the descent of delete: q is the node above the leaf, p the node above q
\* (NULL when the root is the leaf)
RECURSIVE DeleteDescend(_, _, _, _, _, _)
DeleteDescend(h, p, pdirection, q, direction, ubytes) ==
  IF h[q].type[direction + 1] = TYPE_NODE
  THEN LET q1 == h[q].child[direction + 1]
       IN DeleteDescend(h, q, direction, q1, Direction(h[q1], ubytes), ubytes)
  ELSE [p |-> p, pdirection |-> pdirection, q |-> q, direction |-> direction]

\* the descent that looks for the link to lnode: <<t, tdirection>> with
\* t->child[tdirection].node == lnode, or the place where the loop ran out
RECURSIVE FindLink(_, _, _, _, _)
FindLink(h, t, tdirection, lnode, ubytes) ==
  IF h[t].type[tdirection + 1] = TYPE_NODE
  THEN IF h[t].child[tdirection + 1] = lnode
       THEN <<t, tdirection>>
       ELSE LET t1 == h[t].child[tdirection + 1]
            IN FindLink(h, t1, Direction(h[t1], ubytes), lnode, ubytes)
  ELSE <<t, tdirection>>

\* a faulty unlink, which keeps the deleted side: p->child[pdirection] =
\* q->child[direction]
Promote_SameSide(h, p, pdirection, q, direction) ==
  [h EXCEPT ![p].child[pdirection + 1] = h[q].child[direction + 1],
            ![p].type[pdirection + 1] = h[q].type[direction + 1]]

\* p->child[pdirection] = q->child[1 - direction], and its type
Promote(h, p, pdirection, q, direction) ==
  [h EXCEPT ![p].child[pdirection + 1] = h[q].child[(1 - direction) + 1],
            ![p].type[pdirection + 1] = h[q].type[(1 - direction) + 1]]

\* a faulty salvage test, which takes every cell for free
CellIsFree_Always(h, lnode, q) == TRUE

\* lnode == q || lnode->otherbits == UNUSED_NODE
CellIsFree(h, lnode, q) == lnode = q \/ h[lnode].otherbits = UNUSED_NODE

\* a faulty not-found path, which leaves through the code that empties the
\* tree: sentinel.child[0].leaf = NULL; sentinel.type[0] = TYPE_EMPTY
NotFound_Emptied(h) ==
  [res |-> 1, leaf |-> NULL, asserted |-> TRUE, salvage |-> "none",
   h |-> [h EXCEPT ![SENTINEL].child[1] = NULL, ![SENTINEL].type[1] = TYPE_EMPTY]]

\* return 1: nothing is changed
NotFound(h) ==
  [res |-> 1, h |-> h, leaf |-> NULL, asserted |-> TRUE, salvage |-> "none"]

\* a faulty unlink, which marks the cell of the deleted leaf instead of q
Unlink_MarksLeaf(h, d, leaf) ==
  IF d.p = NULL
  THEN [res |-> 0, leaf |-> leaf, asserted |-> TRUE, salvage |-> "last leaf",
        h |-> [h EXCEPT ![SENTINEL].child[1] = NULL,
                        ![SENTINEL].type[1] = TYPE_EMPTY]]
  ELSE [res |-> 0, leaf |-> leaf, asserted |-> TRUE,
        salvage |-> IF leaf = d.q THEN "own cell" ELSE "vacant cell",
        h |-> [Promote(h, d.p, d.pdirection, d.q, d.direction)
                 EXCEPT ![leaf].otherbits = UNUSED_NODE]]

\* a faulty unlink, which does not mark the removed node q as unused
Unlink_NoMark(h, d, leaf) ==
  IF d.p = NULL
  THEN [res |-> 0, leaf |-> leaf, asserted |-> TRUE, salvage |-> "last leaf",
        h |-> [h EXCEPT ![SENTINEL].child[1] = NULL,
                        ![SENTINEL].type[1] = TYPE_EMPTY]]
  ELSE [res |-> 0, leaf |-> leaf, asserted |-> TRUE,
        salvage |-> IF leaf = d.q THEN "own cell" ELSE "vacant cell",
        h |-> Promote(h, d.p, d.pdirection, d.q, d.direction)]

\* the leaf node is, or will be, unused
Unlink(h, d, leaf) ==
  IF d.p = NULL
  THEN [res |-> 0, leaf |-> leaf, asserted |-> TRUE, salvage |-> "last leaf",
        h |-> [h EXCEPT ![SENTINEL].child[1] = NULL,
                        ![SENTINEL].type[1] = TYPE_EMPTY]]
  ELSE [res |-> 0, leaf |-> leaf, asserted |-> TRUE,
        salvage |-> IF leaf = d.q THEN "own cell" ELSE "vacant cell",
        h |-> [Promote(h, d.p, d.pdirection, d.q, d.direction)
                 EXCEPT ![d.q].otherbits = UNUSED_NODE]]

\* a faulty move, which copies lnode field by field and leaves out otherbits
MoveNode_KeepsMask(h1, q, lnode, t, tdirection) ==
  [[h1 EXCEPT ![q].child = h1[lnode].child,
              ![q].type = h1[lnode].type,
              ![q].byte = h1[lnode].byte]
     EXCEPT ![t].child[tdirection + 1] = q]

\* *q = *lnode; t->child[tdirection].node = q, on the heap h1 left by
\* p->child[pdirection] = q->child[1 - direction]
MoveNode(h1, q, lnode, t, tdirection) ==
  [[h1 EXCEPT ![q] = h1[lnode]] EXCEPT ![t].child[tdirection + 1] = q]

\* the leaf node is still in use inside the tree: replace it with the removed
\* node q; f is where the search for the link to lnode ended
Relocate(h, d, lnode, f) ==
  IF h[f[1]].type[f[2] + 1] = TYPE_NODE
  THEN [res |-> 0, leaf |-> lnode, asserted |-> TRUE,
        salvage |-> IF f[1] = SENTINEL THEN "moved root"
                    ELSE IF lnode = d.p THEN "moved parent"
                    ELSE "moved ancestor",
        h |-> MoveNode(Promote(h, d.p, d.pdirection, d.q, d.direction),
                       d.q, lnode, f[1], f[2])]
  ELSE \* assert (t->type[tdirection] == TYPE_NODE) fails
       [res |-> 0, leaf |-> lnode, asserted |-> FALSE, salvage |-> "lost",
        h |-> h]

\* cb_tree_delete_i after the descent d; leaf is the leaf reached, and the
\* cell at the start of its block is lnode
DeleteLeaf(h, b, ubytes, d, leaf) ==
  IF ~SameKey(ubytes, b[leaf])
  THEN NotFound(h)
  ELSE IF CellIsFree(h, leaf, d.q)
  THEN Unlink(h, d, leaf)
  ELSE Relocate(h, d, leaf, FindLink(h, SENTINEL, 0, leaf, ubytes))

DeleteAt(h, b, ubytes, d) ==
  DeleteLeaf(h, b, ubytes, d, h[d.q].child[d.direction + 1])

\* cb_tree_delete_i(tree, ubytes, offset, &leaf): the return value, the heap
\* it leaves, the deleted leaf, the branch taken, whether the assertion held
cb_tree_delete_i(h, b, ubytes) ==
  IF h[SENTINEL].type[1] = TYPE_EMPTY
  THEN NotFound(h)
  ELSE DeleteAt(h, b, ubytes, DeleteDescend(h, NULL, 0, SENTINEL, 0, ubytes))

\* free(ptr) / tree->free(ptr, baton) on the set lv of live blocks
Free(lv, ptr) == lv \ {ptr}
FreeFault(lv, ptr) == IF ptr \in lv THEN {} ELSE {"double free"}

\* the end of cb_tree_delete: if (res == 0) free(buffer), buffer the block of
\* the deleted leaf
DeleteDone(lv, r) ==
  IF r.res = 0
  THEN [res |-> 0, h |-> r.h, freed |-> {r.leaf}, live |-> Free(lv, r.leaf),
        salvage |-> r.salvage, released |-> {"free"},
        fault |-> FreeFault(lv, r.leaf)
                    \cup (IF r.asserted THEN {} ELSE {"assert"})]
  ELSE [res |-> r.res, h |-> r.h, freed |-> {}, live |-> lv,
        salvage |-> r.salvage, released |-> {}, fault |-> {}]

\* cb_tree_delete(tree, str)
cb_tree_delete(h, b, lv, str) == DeleteDone(lv, cb_tree_delete_i(h, b, str))

\* -------------------------------------------------------------------- clear

\* tree->free(ptr, tree->baton) during clear
Release(st, a) ==
  [st EXCEPT !.live = Free(@, a),
             !.freed = @ \cup {a},
             !.order = Append(@, a),
             !.calls = @ + 1,
             !.fault = @ \cup FreeFault(st.live, a)]

\* a read of the cell at a (the sentinel is on the stack)
ReadCell(st, a) ==
  IF a = SENTINEL \/ a \in st.live
  THEN st
  ELSE [st EXCEPT !.fault = @ \cup {"read after free"}]

\* a faulty traversal, which releases the nodes and forgets the leaves whose
\* own cell is vacant
RECURSIVE cbt_traverse_delete_NodesOnly(_, _, _, _)
cbt_traverse_delete_NodesOnly(h, st, par, dir) ==
  IF h[par].type[dir + 1] = TYPE_NODE
  THEN Release(cbt_traverse_delete_NodesOnly(
                 h, cbt_traverse_delete_NodesOnly(h, st, h[par].child[dir + 1], 0),
                 h[par].child[dir + 1], 1),
               h[par].child[dir + 1])
  ELSE st

\* a faulty traversal, which releases a node before it goes into its subtrees
RECURSIVE cbt_traverse_delete_PreOrder(_, _, _, _)
cbt_traverse_delete_PreOrder(h, st, par, dir) ==
  LET s0 == ReadCell(st, par)
  IN IF h[par].type[dir + 1] = TYPE_NODE
     THEN LET q == h[par].child[dir + 1]
              s1 == cbt_traverse_delete_PreOrder(h, Release(s0, q), q, 0)
          IN cbt_traverse_delete_PreOrder(h, s1, q, 1)
     ELSE LET buffer == h[par].child[dir + 1]
              s1 == ReadCell(s0, buffer)
          IN IF h[buffer].otherbits = UNUSED_NODE
             THEN Release(s1, buffer)
             ELSE s1

RECURSIVE cbt_traverse_delete(_, _, _, _)
cbt_traverse_delete(h, st, par, dir) ==
  LET s0 == ReadCell(st, par)
  IN IF h[par].type[dir + 1] = TYPE_NODE
     THEN LET q == h[par].child[dir + 1]
              s1 == cbt_traverse_delete(h, s0, q, 0)
              s2 == cbt_traverse_delete(h, s1, q, 1)
          IN Release(s2, q)
     ELSE LET buffer == h[par].child[dir + 1]
              s1 == ReadCell(s0, buffer)
          IN IF h[buffer].otherbits = UNUSED_NODE
             THEN Release(s1, buffer)
             ELSE s1

\* cb_tree_clear(tree): the blocks it leaves live, those it released, the
\* number of tree->free calls and the faults
cb_tree_clear(h, lv) ==
  LET st0 == [live |-> lv, freed |-> {}, order |-> <<>>, calls |-> 0, fault |-> {}]
  IN IF h[SENTINEL].type[1] # TYPE_EMPTY
     THEN cbt_traverse_delete(h, st0, SENTINEL, 0)
     ELSE st0

\* -------------------------------------------------------------- prefix walk

\* a faulty match, which leaves out the memcmp
NoMatch_LengthOnly(leaf, prefix) == Len(leaf) < Len(prefix)

\* llen < prefixlen || memcmp(leaf, prefix, prefixlen) != 0
NoMatch(leaf, prefix) ==
  Len(leaf) < Len(prefix) \/ SubSeq(leaf, 1, Len(prefix)) # prefix

\* the callback of a walk: it records the key, and returns cb.val at its
\* cb.stop-th invocation and 0 at every other (cb.stop = 0: always 0)
Visit(cb, acc, key) ==
  LET seen == Append(acc.visited, key)
  IN [visited |-> seen,
      ret |-> IF Len(seen) = cb.stop THEN cb.val ELSE 0]

\* a faulty traversal, which goes on to child[1] whatever child[0] returned
RECURSIVE cbt_traverse_prefixed_NoStop(_, _, _, _, _, _)
cbt_traverse_prefixed_NoStop(h, b, par, dir, cb, acc) ==
  IF h[par].type[dir + 1] = TYPE_NODE
  THEN cbt_traverse_prefixed_NoStop(
         h, b, h[par].child[dir + 1], 1, cb,
         cbt_traverse_prefixed_NoStop(h, b, h[par].child[dir + 1], 0, cb, acc))
  ELSE Visit(cb, acc, b[h[par].child[dir + 1]])

\* a faulty traversal, which goes through child[1] before child[0]
RECURSIVE cbt_traverse_prefixed_Reversed(_, _, _, _, _, _)
cbt_traverse_prefixed_Reversed(h, b, par, dir, cb, acc) ==
  IF h[par].type[dir + 1] = TYPE_NODE
  THEN LET q == h[par].child[dir + 1]
           r1 == cbt_traverse_prefixed_Reversed(h, b, q, 1, cb, acc)
       IN IF r1.ret # 0
          THEN r1
          ELSE cbt_traverse_prefixed_Reversed(h, b, q, 0, cb, r1)
  ELSE Visit(cb, acc, b[h[par].child[dir + 1]])

RECURSIVE cbt_traverse_prefixed(_, _, _, _, _, _)
cbt_traverse_prefixed(h, b, par, dir, cb, acc) ==
  IF h[par].type[dir + 1] = TYPE_NODE
  THEN LET q == h[par].child[dir + 1]
           r0 == cbt_traverse_prefixed(h, b, q, 0, cb, acc)
       IN IF r0.ret # 0
          THEN r0
          ELSE cbt_traverse_prefixed(h, b, q, 1, cb, r0)
  ELSE Visit(cb, acc, b[h[par].child[dir + 1]])

\* a faulty descent, in which top follows every node, also those whose byte
\* lies beyond the prefix
RECURSIVE WalkDescend_TopAlways(_, _, _, _, _, _)
WalkDescend_TopAlways(h, p, direction, top, tdirection, prefix) ==
  IF h[p].type[direction + 1] = TYPE_NODE
  THEN LET q == h[p].child[direction + 1]
       IN WalkDescend_TopAlways(h, q, Direction(h[q], prefix), q,
                                Direction(h[q], prefix), prefix)
  ELSE [p |-> p, direction |-> direction, top |-> top, tdirection |-> tdirection]

\* the descent of the walk: top is the last node whose byte lies inside the
\* prefix, tdirection the direction taken from it
RECURSIVE WalkDescend(_, _, _, _, _, _)
WalkDescend(h, p, direction, top, tdirection, prefix) ==
  IF h[p].type[direction + 1] = TYPE_NODE
  THEN LET q == h[p].child[direction + 1]
       IN IF h[q].byte < Len(prefix)
          THEN WalkDescend(h, q, Direction(h[q], prefix), q,
                           Direction(h[q], prefix), prefix)
          ELSE WalkDescend(h, q, 0, top, tdirection, prefix)
  ELSE [p |-> p, direction |-> direction, top |-> top, tdirection |-> tdirection]

\* cb_tree_walk_prefixed_i(tree, prefix, prefixlen, callback, baton): the
\* return value and the keys the callback saw
cb_tree_walk_prefixed_i(h, b, prefix, cb) ==
  LET none == [visited |-> <<>>, ret |-> 0]
  IN IF h[SENTINEL].type[1] = TYPE_EMPTY THEN none
     ELSE LET w == WalkDescend(h, SENTINEL, 0, SENTINEL, 0, prefix)
              leaf == b[h[w.p].child[w.direction + 1]]
          IN IF NoMatch(leaf, prefix) THEN none
             ELSE cbt_traverse_prefixed(h, b, w.top, w.tdirection, cb, none)

cb_tree_walk_prefixed(prefix, cb) ==
  cb_tree_walk_prefixed_i(WithSentinel, bytes, prefix, cb)

\* the callback that never stops the walk (count_cb)
Continue == [stop |-> 0, val |-> 0]
\* the values a stopping callback returns
StopVals == {-1, 2}
Callbacks == {Continue} \cup [stop : 1..MaxStop, val : StopVals]

\* --------------------------------------- the two-allocation variant

\* TYPE_LEAF, TYPE_NODE and TYPE_EMPTY of the two-allocation variant
TYPE_LEAF_2 == 0
TYPE_NODE_2 == 1
TYPE_EMPTY_2 == -1

\* a & ~b on bytes
BitAndNot(a, b) ==
  LET f(i) == IF Bit(a, i) = 1 /\ Bit(b, i) = 0 THEN 2 ^ i ELSE 0
  IN f(0) + f(1) + f(2) + f(3) + f(4) + f(5) + f(6) + f(7)

\* a cb_child_t
Child_2(type, ptr) == [type |-> type, ptr |-> ptr]

\* a node that was released, or never allocated
ZeroNode_2 ==
  [child |-> <<Child_2(0, NULL), Child_2(0, NULL)>>, byte |-> 0, otherbits |-> 0]

\* cb_tree_make: no node, no leaf, and no call made
cb_tree_make_2 ==
  [root |-> Child_2(TYPE_EMPTY_2, NULL),
   node |-> [x \in Addr |-> ZeroNode_2],
   leaf |-> [x \in Addr |-> <<>>],
   nodes |-> {}, leaves |-> {},
   res |-> 0, visited |-> <<>>]

\* leaf[i] of a NUL-terminated string
CharAt(leaf, i) == IF i < Len(leaf) THEN leaf[i + 1] ELSE 0

\* c = 0; if (q->byte < ulen) c = ubytes[q->byte];
\* direction = (1 + (q->otherbits | c)) >> 8
Direction_2(q, ubytes) == (1 + BitOr(q.otherbits, CharAt(ubytes, q.byte))) \div 256

\* while (p.type == TYPE_NODE) { ...; p = q->child[direction]; }
RECURSIVE Descend_2(_, _, _)
Descend_2(t, p, ubytes) ==
  IF p.type = TYPE_NODE_2
  THEN Descend_2(t, t.node[p.ptr].child[Direction_2(t.node[p.ptr], ubytes) + 1],
                 ubytes)
  ELSE p

\* strcmp(str, leaf) == 0
Strcmp_2(str, leaf) == IF str = leaf THEN 0 ELSE 1

\* cb_tree_contains(tree, str)
cb_tree_contains_2(t, str) ==
  IF t.root.type = TYPE_EMPTY_2 THEN 0
  ELSE IF Strcmp_2(str, t.leaf[Descend_2(t, t.root, str).ptr]) = 0 THEN 1 ELSE 0

\* the comparison loop of insert: the first newbyte < ulen at which the leaf
\* and the new key differ, else ulen
FirstDiff_2(leaf, ubytes) ==
  LET D == {i \in 0..(Len(ubytes) - 1) : CharAt(leaf, i) # ubytes[i + 1]}
  IN IF D = {} THEN Len(ubytes) ELSE CHOOSE i \in D : \A j \in D : i <= j

\* a faulty comparison, which leaves out if (p.ptr.leaf[newbyte] != 0)
Differing_2_NoTerminator(leaf, ubytes, newbyte) ==
  IF newbyte < Len(ubytes)
  THEN [found |-> TRUE, newbyte |-> newbyte,
        newotherbits |-> BitXor(CharAt(leaf, newbyte), ubytes[newbyte + 1])]
  ELSE [found |-> FALSE, newbyte |-> newbyte, newotherbits |-> 0]

\* newotherbits as it is at different_byte_found, if that is reached: the xor
\* of two differing bytes, or the byte of the leaf that follows the new key
Differing_2(leaf, ubytes, newbyte) ==
  IF newbyte < Len(ubytes)
  THEN [found |-> TRUE, newbyte |-> newbyte,
        newotherbits |-> BitXor(CharAt(leaf, newbyte), ubytes[newbyte + 1])]
  ELSE IF CharAt(leaf, newbyte) # 0
  THEN [found |-> TRUE, newbyte |-> newbyte,
        newotherbits |-> CharAt(leaf, newbyte)]
  ELSE [found |-> FALSE, newbyte |-> newbyte, newotherbits |-> 0]

\* (x & ~(x >> 1)) ^ 255
KeepTop_2(x) == BitXor(BitAndNot(x, x \div 2), 255)

\* different_byte_found: the mask
CritMask_2(x) == KeepTop_2(Smear(Smear(Smear(x, 2), 4), 16))

\* the child a link refers to: <<NULL, 0>> is &tree->root, <<q, d>> is
\* q->child + d
At_2(t, wherep) ==
  IF wherep[1] = NULL THEN t.root ELSE t.node[wherep[1]].child[wherep[2] + 1]

\* *wherep = c
Put_2(t, wherep, c) ==
  IF wherep[1] = NULL
  THEN [t EXCEPT !.root = c]
  ELSE [t EXCEPT !.node[wherep[1]].child[wherep[2] + 1] = c]

\* the loop that finds where the new node goes
RECURSIVE SpliceDescend_2(_, _, _, _, _)
SpliceDescend_2(t, wherep, newbyte, newotherbits, ubytes) ==
  IF At_2(t, wherep).type = TYPE_LEAF_2 THEN wherep
  ELSE LET q == At_2(t, wherep).ptr
       IN IF t.node[q].byte > newbyte THEN wherep
          ELSE IF t.node[q].byte = newbyte /\ t.node[q].otherbits > newotherbits
          THEN wherep
          ELSE SpliceDescend_2(t, <<q, Direction_2(t.node[q], ubytes)>>,
                               newbyte, newotherbits, ubytes)

\* newnode, with the new leaf x on side 1 - newdirection and *wherep on the other
NewNode_2(newbyte, newotherbits, newdirection, x, old) ==
  [byte |-> newbyte, otherbits |-> newotherbits,
   child |-> IF newdirection = 0
             THEN <<old, Child_2(TYPE_LEAF_2, x)>>
             ELSE <<Child_2(TYPE_LEAF_2, x), old>>]

\* memcpy(x, ubytes, ulen + 1), the fields of newnode and the splice at wherep
Splice_2(t, ubytes, newnode, x, d, newdirection, wherep) ==
  [Put_2([t EXCEPT !.node[newnode] =
                     NewNode_2(d.newbyte, d.newotherbits, newdirection, x,
                               At_2(t, wherep)),
                   !.leaf[x] = ubytes,
                   !.nodes = @ \cup {newnode},
                   !.leaves = @ \cup {x}],
         wherep, Child_2(TYPE_NODE_2, newnode))
     EXCEPT !.res = 0, !.visited = <<>>]

\* return ENOMEM: the tree is as it was; a node that was allocated has been
\* released through tree->free and is no block of the tree
NoMemory_2(t) == [t EXCEPT !.res = ENOMEM, !.visited = <<>>]

\* insert from different_byte_found on; d.newotherbits is the mask, and
\* blocks is the number of blocks tree->malloc returns before it returns
\* NULL: with none newnode is NULL, with one x is NULL and newnode is released
InsertAt_2(t, ubytes, leaf, d, blocks) ==
  IF blocks = 0 THEN NoMemory_2(t)
  ELSE IF blocks = 1 THEN NoMemory_2(t)
  ELSE Splice_2(t, ubytes, malloc_std(ubytes, t.nodes), malloc_std(ubytes, t.leaves),
                d, (1 + BitOr(d.newotherbits, CharAt(leaf, d.newbyte))) \div 256,
                SpliceDescend_2(t, <<NULL, 0>>, d.newbyte, d.newotherbits, ubytes))

\* insert after the comparison d of the new key with the leaf
InsertCompared_2(t, ubytes, leaf, d, blocks) ==
  IF ~d.found
  THEN [t EXCEPT !.res = 1, !.visited = <<>>]
  ELSE InsertAt_2(t, ubytes, leaf,
                  [d EXCEPT !.newotherbits = CritMask_2(d.newotherbits)], blocks)

\* insert into a tree that is not empty; leaf is the leaf the descent reached
InsertProbed_2(t, ubytes, leaf, blocks) ==
  InsertCompared_2(t, ubytes, leaf,
                   Differing_2(leaf, ubytes, FirstDiff_2(leaf, ubytes)), blocks)

\* cb_tree_insert(tree, str); blocks: the number of blocks tree->malloc
\* returns before it returns NULL
cb_tree_insert_2(t, str, blocks) ==
  IF t.root.type = TYPE_EMPTY_2
  THEN IF blocks = 0 THEN NoMemory_2(t)
       ELSE [t EXCEPT !.root = Child_2(TYPE_LEAF_2, malloc_std(str, t.leaves)),
                      !.leaf[malloc_std(str, t.leaves)] = str,
                      !.leaves = @ \cup {malloc_std(str, t.leaves)},
                      !.res = 0, !.visited = <<>>]
  ELSE InsertProbed_2(t, str, t.leaf[Descend_2(t, t.root, str).ptr], blocks)

\* the descent of delete: whereq is the link to q, wherep the link to p
RECURSIVE DeleteDescend_2(_, _, _, _)
DeleteDescend_2(t, whereq, wherep, ubytes) ==
  IF At_2(t, wherep).type = TYPE_NODE_2
  THEN LET q == At_2(t, wherep).ptr
       IN DeleteDescend_2(t, wherep, <<q, Direction_2(t.node[q], ubytes)>>, ubytes)
  ELSE [whereq |-> whereq, wherep |-> wherep]

\* tree->free(p.ptr.leaf); then the root is emptied, or *whereq =
\* q->child[1 - direction] and tree->free(q)
Unlink_2(t, w, x) ==
  IF w.whereq = <<>>
  THEN [t EXCEPT !.root = Child_2(TYPE_EMPTY_2, NULL),
                 !.leaf[x] = <<>>, !.leaves = @ \ {x},
                 !.res = 0, !.visited = <<>>]
  ELSE [Put_2(t, w.whereq, t.node[w.wherep[1]].child[2 - w.wherep[2]])
          EXCEPT !.node[w.wherep[1]] = ZeroNode_2,
                 !.nodes = @ \ {w.wherep[1]},
                 !.leaf[x] = <<>>, !.leaves = @ \ {x},
                 !.res = 0, !.visited = <<>>]

\* delete after the descent w
DeleteAt_2(t, str, w) ==
  IF Strcmp_2(str, t.leaf[At_2(t, w.wherep).ptr]) # 0
  THEN [t EXCEPT !.res = 1, !.visited = <<>>]
  ELSE Unlink_2(t, w, At_2(t, w.wherep).ptr)

\* cb_tree_delete(tree, str)
cb_tree_delete_2(t, str) ==
  IF t.root.type = TYPE_EMPTY_2
  THEN [t EXCEPT !.res = 1, !.visited = <<>>]
  ELSE DeleteAt_2(t, str, DeleteDescend_2(t, <<>>, <<NULL, 0>>, str))

\* cbt_traverse_delete(tree, p): the nodes and the leaves it releases
RECURSIVE cbt_traverse_delete_2(_, _)
cbt_traverse_delete_2(t, p) ==
  IF p.type = TYPE_NODE_2
  THEN LET a == cbt_traverse_delete_2(t, t.node[p.ptr].child[1])
           b == cbt_traverse_delete_2(t, t.node[p.ptr].child[2])
       IN [nodes |-> a.nodes \cup b.nodes \cup {p.ptr},
           leaves |-> a.leaves \cup b.leaves]
  ELSE [nodes |-> {}, leaves |-> {p.ptr}]

\* the tree with the blocks of f released, and the root type emptied
Cleared_2(t, f) ==
  [t EXCEPT !.root.type = TYPE_EMPTY_2,
            !.node = [x \in Addr |-> IF x \in f.nodes THEN ZeroNode_2 ELSE @[x]],
            !.leaf = [x \in Addr |-> IF x \in f.leaves THEN <<>> ELSE @[x]],
            !.nodes = @ \ f.nodes,
            !.leaves = @ \ f.leaves,
            !.res = 0, !.visited = <<>>]

\* cb_tree_clear(tree)
cb_tree_clear_2(t) ==
  IF t.root.type # TYPE_EMPTY_2
  THEN Cleared_2(t, cbt_traverse_delete_2(t, t.root))
  ELSE Cleared_2(t, [nodes |-> {}, leaves |-> {}])

\* cbt_traverse_prefixed(top, callback, baton)
RECURSIVE cbt_traverse_prefixed_2(_, _, _, _)
cbt_traverse_prefixed_2(t, top, cb, acc) ==
  IF top.type = TYPE_NODE_2
  THEN LET r0 == cbt_traverse_prefixed_2(t, t.node[top.ptr].child[1], cb, acc)
       IN IF r0.ret # 0
          THEN r0
          ELSE cbt_traverse_prefixed_2(t, t.node[top.ptr].child[2], cb, r0)
  ELSE LET seen == Append(acc.visited, t.leaf[top.ptr])
       IN [visited |-> seen,
           ret |-> IF Len(seen) = cb.stop THEN cb.val ELSE 0]

\* the descent of the walk: p, and top, which follows p while q->byte < ulen
RECURSIVE WalkDescend_2(_, _, _, _)
WalkDescend_2(t, p, top, ubytes) ==
  IF p.type = TYPE_NODE_2
  THEN LET q == t.node[p.ptr]
           next == q.child[Direction_2(q, ubytes) + 1]
       IN WalkDescend_2(t, next, IF q.byte < Len(ubytes) THEN next ELSE top, ubytes)
  ELSE [p |-> p, top |-> top]

\* the walk after the descent w
WalkAt_2(t, prefix, cb, w) ==
  IF Len(t.leaf[w.p.ptr]) < Len(prefix)
     \/ SubSeq(t.leaf[w.p.ptr], 1, Len(prefix)) # prefix
  THEN [visited |-> <<>>, ret |-> 0]
  ELSE cbt_traverse_prefixed_2(t, w.top, cb, [visited |-> <<>>, ret |-> 0])

\* cb_tree_walk_prefixed(tree, prefix, callback, baton)
cb_tree_walk_prefixed_2(t, prefix, cb) ==
  IF t.root.type = TYPE_EMPTY_2
  THEN [visited |-> <<>>, ret |-> 0]
  ELSE WalkAt_2(t, prefix, cb, WalkDescend_2(t, t.root, t.root, prefix))

\* ------------------------------------------------------------------ actions

NoCall == [op |-> "none", key |-> <<>>, ok |-> TRUE, stop |-> 0, val |-> 0]

\* no comparison was made
NoCompare == [newbyte |-> 0, clen |-> 0, newotherbits |-> 0, newdirection |-> 0]

\* a call is made between calls, and its result is then held by the caller
Idle == pc = "idle"
Called == pc' = "returned" /\ before' = Snapshot /\ compared' = NoCompare

\* cb_tree_insert(tree, str); ok: whether tree->malloc returns a block
Insert(str, ok) ==
  /\ Idle
  /\ \E r \in {cb_tree_insert(WithSentinel, bytes, live, str, ok)} :
     /\ Called
     /\ allocator = "counting" => outstanding < MaxOutstanding
     /\ call' = [NoCall EXCEPT !.op = "insert", !.key = str, !.ok = ok]
     /\ res' = r.res
     /\ root' = r.h[SENTINEL].child[1]
     /\ root_type' = r.h[SENTINEL].type[1]
     /\ cell' = Stored(r.h)
     /\ bytes' = r.b
     /\ live' = r.live
     /\ outstanding' = IF allocator = "counting"
                       THEN outstanding + r.mallocs
                       ELSE outstanding
     /\ ref' = IF ok THEN ref \cup {str} ELSE ref
     /\ released' = r.released
     /\ requested' = r.requested
     /\ visited' = <<>>
     /\ salvage' = "none"
     /\ fault' = {}
     /\ UNCHANGED allocator

\* cb_tree_delete(tree, str)
Delete(str) ==
  /\ Idle
  /\ \E r \in {cb_tree_delete(WithSentinel, bytes, live, str)} :
     /\ Called
     /\ call' = [NoCall EXCEPT !.op = "delete", !.key = str]
     /\ res' = r.res
     /\ root' = r.h[SENTINEL].child[1]
     /\ root_type' = r.h[SENTINEL].type[1]
     /\ cell' = Scrub(Stored(r.h), r.freed)
     /\ bytes' = ScrubBytes(bytes, r.freed)
     /\ live' = r.live
     /\ ref' = ref \ {str}
     /\ released' = r.released
     /\ requested' = 0
     /\ visited' = <<>>
     /\ salvage' = r.salvage
     /\ fault' = r.fault
     /\ UNCHANGED <<allocator, outstanding>>

\* cb_tree_clear(tree): root_type becomes TYPE_EMPTY, root is left as it was
Clear ==
  /\ Idle
  /\ \E r \in {cb_tree_clear(WithSentinel, live)} :
     /\ Called
     /\ call' = [NoCall EXCEPT !.op = "clear"]
     /\ res' = 0
     /\ root_type' = TYPE_EMPTY
     /\ root' = root
     /\ cell' = Scrub(cell, r.freed)
     /\ bytes' = ScrubBytes(bytes, r.freed)
     /\ live' = r.live
     /\ outstanding' = IF allocator = "counting"
                       THEN outstanding - r.calls
                       ELSE outstanding
     /\ ref' = {}
     /\ released' = IF r.calls > 0 THEN {"tree->free"} ELSE {}
     /\ requested' = 0
     /\ visited' = <<>>
     /\ salvage' = "none"
     /\ fault' = r.fault
     /\ UNCHANGED allocator

\* cb_tree_contains(tree, str)
Contains(str) ==
  /\ Idle
  /\ Called
  /\ call' = [NoCall EXCEPT !.op = "contains", !.key = str]
  /\ res' = cb_tree_contains(str)
  /\ visited' = <<>>
  /\ salvage' = "none"
  /\ released' = {}
  /\ requested' = 0
  /\ fault' = {}
  /\ UNCHANGED <<root, root_type, cell, bytes, live, allocator, outstanding, ref>>

\* cb_tree_walk_prefixed(tree, prefix, callback, baton)
Walk(prefix, cb) ==
  /\ Idle
  /\ \E r \in {cb_tree_walk_prefixed(prefix, cb)} :
     /\ Called
     /\ call' = [NoCall EXCEPT !.op = "walk", !.key = prefix,
                               !.stop = cb.stop, !.val = cb.val]
     /\ res' = r.ret
     /\ visited' = r.visited
     /\ salvage' = "none"
     /\ released' = {}
     /\ requested' = 0
     /\ fault' = {}
     /\ UNCHANGED <<root, root_type, cell, bytes, live, allocator, outstanding, ref>>

\* the caller has examined the result and goes on to its next call
Return ==
  /\ pc = "returned"
  /\ pc' = "idle"
  /\ before' = Snapshot
  /\ call' = NoCall
  /\ res' = 0
  /\ visited' = <<>>
  /\ salvage' = "none"
  /\ released' = {}
  /\ requested' = 0
  /\ fault' = {}
  /\ compared' = NoCompare
  /\ UNCHANGED <<root, root_type, cell, bytes, live, allocator, outstanding, ref>>

\* the bytes of a key: cb_byte_t, and not the terminator
Bytes == 1..(2 ^ 8 - 1)

\* the comparison of cb_tree_insert_node on a leaf and a new key of one byte
\* each, which differ
Compare(a, b) ==
  /\ Idle
  /\ a # b
  /\ pc' = "returned"
  /\ before' = Snapshot
  /\ call' = [NoCall EXCEPT !.op = "compare", !.key = <<a, b>>]
  /\ compared' = CompareKeys(<<a>>, <<b>>)
  /\ UNCHANGED <<root, root_type, cell, bytes, live, allocator, outstanding,
                 ref, res, visited, salvage, released, requested, fault>>

\* the masks a node can carry: one bit cleared, or the prefix marker
Masks == {255 - 2 ^ j : j \in 0..7} \cup {PREFIX_MASK}

\* a tree of one node n over two leaves
OneNode(n) ==
  SentinelOver(1, TYPE_NODE,
               [x \in Addr |->
                  IF x = 1
                  THEN [byte |-> n.byte, otherbits |-> n.otherbits,
                        child |-> <<1, 2>>, type |-> <<TYPE_LEAF, TYPE_LEAF>>]
                  ELSE ZeroNode])

\* the loop of cb_tree_contains_i at the node n for the key ubytes
Direct(n, ubytes) ==
  /\ Idle
  /\ pc' = "returned"
  /\ before' = Snapshot
  /\ call' = [op |-> "direction", key |-> ubytes, node |-> n]
  /\ res' = Descend(OneNode(n), SENTINEL, 0, ubytes)[2]
  /\ compared' = NoCompare
  /\ UNCHANGED <<root, root_type, cell, bytes, live, allocator, outstanding,
                 ref, visited, salvage, released, requested, fault>>

\* a call of the co-allocating variant alone
Alone == two' = two /\ nomem' = nomem

\* what tree->malloc of the two-allocation tree can do in one call: return
\* NULL at once, after one block, or not at all
Blocks == 0..2

\* the same call made on the trees of both variants. Each tree has its own
\* allocator: ok is whether tree->malloc of the co-allocating tree returns a
\* block, blocks the number of blocks tree->malloc of the two-allocation
\* tree returns before it returns NULL
InsertBoth(str, ok, blocks) ==
  /\ Insert(str, ok)
  /\ two' = cb_tree_insert_2(two, str, blocks)
  /\ nomem' = IF ok /\ blocks = 2 THEN nomem ELSE nomem + 1

DeleteBoth(str) ==
  Delete(str) /\ two' = cb_tree_delete_2(two, str) /\ nomem' = nomem

ClearBoth == Clear /\ two' = cb_tree_clear_2(two) /\ nomem' = nomem

ContainsBoth(str) ==
  /\ Contains(str)
  /\ two' = [two EXCEPT !.res = cb_tree_contains_2(two, str), !.visited = <<>>]
  /\ nomem' = nomem

WalkBoth(prefix, cb) ==
  /\ Walk(prefix, cb)
  /\ \E r \in {cb_tree_walk_prefixed_2(two, prefix, cb)} :
       two' = [two EXCEPT !.res = r.ret, !.visited = r.visited]
  /\ nomem' = nomem

\* the caller has compared the two results and goes on to its next call
ReturnBoth ==
  Return /\ two' = [two EXCEPT !.res = 0, !.visited = <<>>] /\ nomem' = nomem

\* ------------------------------------------------------------ specifications

\* cb_tree_make(), with the tree's allocator pair left as made ("std") or
\* replaced by a pair that counts the blocks outstanding in its baton
InitWith(a) ==
  /\ root = NULL
  /\ root_type = TYPE_EMPTY
  /\ cell = [x \in Addr |-> ZeroNode]
  /\ bytes = [x \in Addr |-> <<>>]
  /\ live = {}
  /\ allocator = a
  /\ outstanding = 0
  /\ ref = {}
  /\ pc = "idle"
  /\ call = NoCall
  /\ res = 0
  /\ visited = <<>>
  /\ salvage = "none"
  /\ released = {}
  /\ requested = 0
  /\ fault = {}
  /\ compared = NoCompare
  /\ two = cb_tree_make_2
  /\ nomem = 0
  /\ before = Snapshot

Init == InitWith("std")

InitCounting == InitWith("counting")

\* insert, delete, clear and contains calls in any order
Next ==
  \/ \E k \in Keys, ok \in BOOLEAN : Insert(k, ok) /\ Alone
  \/ \E k \in Keys : Delete(k) /\ Alone
  \/ Clear /\ Alone
  \/ \E k \in Keys : Contains(k) /\ Alone
  \/ Return /\ Alone

\* insert, delete, clear and prefix walk calls in any order
NextWalk ==
  \/ \E k \in Keys, ok \in BOOLEAN : Insert(k, ok) /\ Alone
  \/ \E k \in Keys : Delete(k) /\ Alone
  \/ Clear /\ Alone
  \/ \E p \in Prefixes, cb \in Callbacks : Walk(p, cb) /\ Alone
  \/ Return /\ Alone

Spec == Init /\ [][Next]_vars

SpecWalk == Init /\ [][NextWalk]_vars

SpecCounting == InitCounting /\ [][Next]_vars

\* comparisons of any two differing bytes, and descents through any node
\* with any key of at most one byte
NextCompare ==
  \/ Idle /\ \E a \in Bytes, b \in Bytes : Compare(a, b) /\ Alone
  \/ Idle /\ \E m \in Masks, o \in 0..1, k \in {<<>>} \cup {<<c>> : c \in Bytes} :
               Direct([byte |-> o, otherbits |-> m], k) /\ Alone
  \/ Return /\ Alone

SpecCompare == Init /\ [][NextCompare]_vars

\* the keys the calls on both variants are made with
KeysBoth == {KeySeq[i] : i \in 1..NumKeysBoth}

\* the two trees are compared for as long as fewer than MaxNoMemory calls
\* were made with an allocator that returns NULL
Comparing == nomem < MaxNoMemory

\* the calls of the churn and prefix tests made on both variants, the
\* inserts with allocators that work and with allocators that return NULL
NextBoth ==
  \/ Comparing /\ \E k \in KeysBoth, ok \in BOOLEAN, n \in Blocks : InsertBoth(k, ok, n)
  \/ Comparing /\ \E k \in KeysBoth : DeleteBoth(k)
  \/ Comparing /\ ClearBoth
  \/ Comparing /\ \E k \in KeysBoth : ContainsBoth(k)
  \/ Comparing /\ \E p \in Prefixes, cb \in Callbacks : WalkBoth(p, cb)
  \/ Comparing /\ ReturnBoth

SpecBoth == Init /\ [][NextBoth]_vars

\* ------------------------------------------------------------- observations

\* the keys contains reports as members, in the tree of snapshot s
MembersOf(s) ==
  {k \in Prefixes :
     cb_tree_contains_i(SentinelOver(s.root, s.root_type, s.cell), s.bytes, k) = 1}

\* the number of keys a walk with the empty prefix and count_cb visits
WalkCountOf(s) ==
  Len(cb_tree_walk_prefixed_i(SentinelOver(s.root, s.root_type, s.cell),
                              s.bytes, <<>>, Continue).visited)

Members == MembersOf(Snapshot)
WalkCount == WalkCountOf(Snapshot)

\* k starts with p
HasPrefix(k, p) == Len(k) >= Len(p) /\ SubSeq(k, 1, Len(p)) = p

\* the members of set m that start with p
Matching(m, p) == {k \in m : HasPrefix(k, p)}

\* a sorts before b as byte strings
LexLess(a, b) ==
  LET D == {i \in 1..Min(Len(a), Len(b)) : a[i] # b[i]}
  IN IF D = {} THEN Len(a) < Len(b)
     ELSE LET i == CHOOSE j \in D : \A l \in D : j <= l IN a[i] < b[i]

\* the n smallest keys of set m
Smallest(m, n) == {k \in m : Cardinality({l \in m : LexLess(l, k)}) < n}

Range(seq) == {seq[i] : i \in 1..Len(seq)}

\* seq lists every element of set m once, and nothing else
ListsOnce(seq, m) == Range(seq) = m /\ Len(seq) = Cardinality(m)

\* the blocks that hold a node or a leaf reachable from the root
RECURSIVE ReachableFrom(_, _, _)
ReachableFrom(h, par, dir) ==
  IF h[par].type[dir + 1] = TYPE_NODE
  THEN {h[par].child[dir + 1]}
         \cup ReachableFrom(h, h[par].child[dir + 1], 0)
         \cup ReachableFrom(h, h[par].child[dir + 1], 1)
  ELSE {h[par].child[dir + 1]}

Reachable ==
  IF root_type = TYPE_EMPTY THEN {} ELSE ReachableFrom(WithSentinel, SENTINEL, 0)

Returned(op) == pc = "returned" /\ call.op = op

\* ------------------------------------------------------------------- claims

\* C1: after every step of any sequence of insert, delete and clear calls,
\* contains(k) returns 1 exactly when k is in the reference set and 0
\* otherwise, for every key k of the universe.
C1_ContainsMatchesReference ==
  \A k \in Prefixes : cb_tree_contains(k) = (IF k \in ref THEN 1 ELSE 0)

\* a delete has just removed a member of a tree that still holds three keys
C1_Witness ==
  /\ Returned("delete")
  /\ res = 0
  /\ Cardinality(ref) >= 3
  /\ \E k \in Keys : k \notin ref /\ cb_tree_contains(k) = 0

\* C2: insert(k) with a working allocator returns 0 (Inserted) when k is not
\* a member and 1 (AlreadyPresent) when it is; after AlreadyPresent the set of
\* members and the number of keys an empty-prefix walk visits are unchanged.
C2_InsertResult ==
  (Returned("insert") /\ call.ok)
  => /\ res = (IF call.key \in MembersOf(before) THEN 1 ELSE 0)
     /\ res = 1 => /\ Members = MembersOf(before)
                   /\ WalkCount = WalkCountOf(before)

\* an insert has just returned AlreadyPresent for a key that is a prefix of
\* another member
C2_Witness ==
  /\ Returned("insert")
  /\ call.ok
  /\ res = 1
  /\ \E m \in Members : Len(m) > Len(call.key)
                        /\ SubSeq(m, 1, Len(call.key)) = call.key

\* C3: delete(k) returns 0 (Deleted) exactly when k is a member and 1
\* (NotFound) otherwise; after Deleted, contains(k) is false, a repeated
\* delete(k) returns NotFound, and every other member is still a member.
C3_DeleteResult ==
  Returned("delete")
  => /\ res = (IF call.key \in MembersOf(before) THEN 0 ELSE 1)
     /\ res = 0 => /\ cb_tree_contains(call.key) = 0
                   /\ cb_tree_delete(WithSentinel, bytes, live, call.key).res = 1
                   /\ MembersOf(before) \ {call.key} \subseteq Members

\* a delete has just removed a key whose cell was in use as an inner node,
\* and two members remain
C3_Witness ==
  /\ Returned("delete")
  /\ res = 0
  /\ salvage \in {"moved root", "moved parent", "moved ancestor"}
  /\ Cardinality(Members) >= 2

\* C4: a walk with the empty prefix and a callback that always continues
\* invokes the callback on every member exactly once and on nothing else, and
\* returns 0 (Completed); it visits nothing once every key has been deleted.
C4_EmptyPrefixVisitsAll ==
  (Returned("walk") /\ call.key = <<>> /\ call.stop = 0)
  => res = 0 /\ ListsOnce(visited, ref)

\* such a walk has just gone over a tree of four keys
C4_Witness ==
  /\ Returned("walk")
  /\ call.key = <<>>
  /\ call.stop = 0
  /\ Len(visited) >= 4

\* C5: for every prefix p, of any length, a walk whose callback always
\* continues visits exactly the members that are at least as long as p and
\* start with p, each once, nothing when there is none, and returns 0.
C5_PrefixVisitsMatching ==
  (Returned("walk") /\ call.stop = 0)
  => res = 0 /\ ListsOnce(visited, Matching(ref, call.key))

\* a walk with a non-empty prefix has just visited two members, the prefix
\* itself among them, and left another member out
C5_Witness ==
  /\ Returned("walk")
  /\ call.stop = 0
  /\ call.key # <<>>
  /\ Len(visited) >= 2
  /\ call.key \in Range(visited)
  /\ ref \ Range(visited) # {}

\* C6: as soon as the callback returns a non-zero value the walk invokes it on
\* no further key and returns that value; the keys visited are exactly the
\* smallest matching keys, in byte order, up to the one the callback stopped on.
C6_StopsEarly ==
  (/\ Returned("walk")
   /\ call.stop > 0
   /\ Cardinality(Matching(ref, call.key)) >= call.stop)
  => /\ res = call.val
     /\ Len(visited) = call.stop
     /\ Range(visited) = Smallest(Matching(ref, call.key), call.stop)

\* a callback has just stopped a walk on the second of three matching keys
C6_Witness ==
  /\ Returned("walk")
  /\ call.stop = 2
  /\ res = call.val
  /\ Len(visited) = 2
  /\ Cardinality(Matching(ref, call.key)) >= 3

\* C7: when tree->malloc fails, insert(k) returns ENOMEM for every k, member
\* or not, on an empty tree or not, and the tree (root, cells, key bytes,
\* members, outstanding blocks) is exactly as before the call.
C7_AllocationFailure ==
  (Returned("insert") /\ ~call.ok)
  => res = ENOMEM /\ Snapshot = before /\ Members = MembersOf(before)

\* an insert of a member has just failed to allocate
C7_Witness ==
  /\ Returned("insert")
  /\ ~call.ok
  /\ res = ENOMEM
  /\ call.key \in Members
  /\ Cardinality(Members) >= 2

\* C8: with an allocator that counts outstanding blocks, after every insert,
\* delete or clear call the number of outstanding blocks equals the number of
\* members of the tree.
C8_OutstandingEqualsMembers == outstanding = Cardinality(Members)

\* C9: no block is released twice, and after each call no node or leaf
\* reachable from the root lies inside a released block.
C9_NoUseAfterRelease ==
  /\ "double free" \notin fault
  /\ Reachable \subseteq live

\* a delete has just released the block of a key whose cell was in use as an
\* inner node, after that node was moved into the cell of the removed node
C9_Witness ==
  /\ Returned("delete")
  /\ res = 0
  /\ salvage \in {"moved parent", "moved ancestor"}
  /\ Cardinality(Reachable) >= 3
  /\ before.live \ live # {}

\* C10: every block obtained through tree->malloc is released only through
\* tree->free: the block of a deleted key, the block discarded when insert
\* returns AlreadyPresent, and the blocks released by clear.
C10_ReleasedThroughTree == released \subseteq {"tree->free"}

\* C11: an operation that does not succeed leaves the tree exactly as before:
\* after a delete returning NotFound and after an insert returning
\* AlreadyPresent the root, every node cell (offset, mask, children, vacancy)
\* and every leaf are as they were before the call.
C11_FailureLeavesTree ==
  (pc = "returned" /\ call.op \in {"insert", "delete"} /\ res = 1)
  => /\ root = before.root
     /\ root_type = before.root_type
     /\ cell = before.cell
     /\ bytes = before.bytes
     /\ live = before.live

\* a delete has just returned NotFound for a key that is a prefix of a
\* member, in a tree with inner nodes and a vacant cell
C11_Witness ==
  /\ Returned("delete")
  /\ res = 1
  /\ Cardinality(Members) >= 3
  /\ \E m \in Members : HasPrefix(m, call.key)
  /\ \E a \in live : cell[a].otherbits = UNUSED_NODE

\* C12: insert(k) for a key k that is already a member returns 1
\* (AlreadyPresent) without calling the tree's allocate function.
C12_DuplicateWithoutAllocate ==
  (Returned("insert") /\ call.key \in MembersOf(before))
  => res = 1 /\ requested = 0

\* what the operations can read of a tree: the root pointer is read only when
\* root_type is not TYPE_EMPTY
Observable(r, t, c, b, lv) ==
  [root |-> IF t = TYPE_EMPTY THEN NULL ELSE r, root_type |-> t,
   cell |-> c, bytes |-> b, live |-> lv]

\* the heap of a tree just made by cb_tree_make
FreshCell == [x \in Addr |-> ZeroNode]
FreshBytes == [x \in Addr |-> <<>>]

\* the result of an insert into the tree (r, t, c, b, lv), and the tree it leaves
InsertOutcome(r, t, c, b, lv, k, ok) ==
  LET x == cb_tree_insert(SentinelOver(r, t, c), b, lv, k, ok)
  IN [res |-> x.res,
      tree |-> Observable(x.h[SENTINEL].child[1], x.h[SENTINEL].type[1],
                          Stored(x.h), x.b, x.live)]

\* C13: clear on any reachable tree leaves the tree Empty: afterwards
\* contains(k) is false and delete(k) returns NotFound for every k, a walk
\* with any prefix visits nothing, and what the operations can read of the
\* tree, and so what an insert does next, is as on a freshly made tree.
C13_ClearLeavesEmpty ==
  Returned("clear")
  => /\ root_type = TYPE_EMPTY
     /\ \A k \in Prefixes :
          /\ cb_tree_contains(k) = 0
          /\ cb_tree_delete(WithSentinel, bytes, live, k).res = 1
          /\ \A cb \in Callbacks :
               cb_tree_walk_prefixed(k, cb) = [visited |-> <<>>, ret |-> 0]
     /\ Observable(root, root_type, cell, bytes, live)
          = Observable(NULL, TYPE_EMPTY, FreshCell, FreshBytes, {})
     /\ \A k \in Keys, ok \in BOOLEAN :
          InsertOutcome(root, root_type, cell, bytes, live, k, ok)
            = InsertOutcome(NULL, TYPE_EMPTY, FreshCell, FreshBytes, {}, k, ok)

\* a clear has just released a tree of four keys, and left the root pointer
\* pointing at a released block
C13_Witness ==
  /\ Returned("clear")
  /\ Cardinality(MembersOf(before)) >= 4
  /\ root # NULL
  /\ root \notin live

\* a is a strict prefix of b
StrictPrefix(a, b) == Len(a) < Len(b) /\ HasPrefix(b, a)

\* one of a and b is a strict prefix of the other
Nested(a, b) == StrictPrefix(a, b) \/ StrictPrefix(b, a)

\* C14: contains(q) is false for every q that was not inserted, also when q
\* is a strict prefix (the empty string included) or a strict extension of a
\* member; and when a member and a strict extension of it are both members,
\* deleting either one leaves the other a member.
C14_PartialMatchIsNoMember ==
  /\ \A q \in Prefixes \ ref :
       (\E m \in ref : Nested(q, m)) => cb_tree_contains(q) = 0
  /\ (Returned("delete") /\ res = 0)
     => \A m \in before.ref :
          Nested(m, call.key) => cb_tree_contains(m) = 1

\* a delete has just removed a non-empty key that has a strict prefix and a
\* strict extension among the members, and is now reported as no member
C14_Witness ==
  /\ Returned("delete")
  /\ res = 0
  /\ call.key # <<>>
  /\ \E m \in ref : StrictPrefix(m, call.key)
  /\ \E m \in ref : StrictPrefix(call.key, m)
  /\ cb_tree_contains(call.key) = 0

\* the blocks whose leaf is reachable from the link (par, dir)
RECURSIVE LeavesFrom(_, _, _)
LeavesFrom(h, par, dir) ==
  IF h[par].type[dir + 1] = TYPE_NODE
  THEN LeavesFrom(h, h[par].child[dir + 1], 0)
         \cup LeavesFrom(h, h[par].child[dir + 1], 1)
  ELSE {h[par].child[dir + 1]}

\* the blocks whose cell is reachable as an internal node from (par, dir)
RECURSIVE NodesFrom(_, _, _)
NodesFrom(h, par, dir) ==
  IF h[par].type[dir + 1] = TYPE_NODE
  THEN {h[par].child[dir + 1]}
         \cup NodesFrom(h, h[par].child[dir + 1], 0)
         \cup NodesFrom(h, h[par].child[dir + 1], 1)
  ELSE {}

Leaves == IF root_type = TYPE_EMPTY THEN {} ELSE LeavesFrom(WithSentinel, SENTINEL, 0)
Nodes == IF root_type = TYPE_EMPTY THEN {} ELSE NodesFrom(WithSentinel, SENTINEL, 0)

\* the nodes the descent for ubytes goes through, from the link (p, direction)
RECURSIVE PathNodes(_, _, _, _)
PathNodes(h, p, direction, ubytes) ==
  IF h[p].type[direction + 1] = TYPE_NODE
  THEN {h[p].child[direction + 1]}
         \cup PathNodes(h, h[p].child[direction + 1],
                        Direction(h[h[p].child[direction + 1]], ubytes), ubytes)
  ELSE {}

\* C15: for every leaf whose co-allocated cell is in use as an internal node,
\* that node lies on the descent path for the leaf's own key; and in delete
\* the search for the link to a cell in use finds it before it reaches a
\* leaf, so that the assertion after the loop never fails.
C15_CellInUseIsAncestor ==
  /\ \A a \in Leaves :
       (cell[a].otherbits # UNUSED_NODE \/ a \in Nodes)
       => a \in PathNodes(WithSentinel, SENTINEL, 0, bytes[a])
  /\ Returned("delete") => ("assert" \notin fault /\ salvage # "lost")

\* a delete has just moved a node that was neither the parent of the deleted
\* leaf nor the root, and a remaining leaf has its cell in use above its parent
C15_Witness ==
  /\ Returned("delete")
  /\ res = 0
  /\ salvage = "moved ancestor"
  /\ \E a \in Leaves :
       /\ cell[a].otherbits # UNUSED_NODE
       /\ a \notin {cell[a].child[1], cell[a].child[2]}

\* the logical tree below the link (par, dir): offsets, masks, child order and
\* keys, without the addresses
RECURSIVE LogicalFrom(_, _, _, _)
LogicalFrom(h, b, par, dir) ==
  IF h[par].type[dir + 1] = TYPE_NODE
  THEN <<"node", h[h[par].child[dir + 1]].byte, h[h[par].child[dir + 1]].otherbits,
         LogicalFrom(h, b, h[par].child[dir + 1], 0),
         LogicalFrom(h, b, h[par].child[dir + 1], 1)>>
  ELSE <<"leaf", b[h[par].child[dir + 1]]>>

\* the logical tree of the snapshot s
LogicalOf(s) ==
  IF s.root_type = TYPE_EMPTY
  THEN <<"empty">>
  ELSE LogicalFrom(SentinelOver(s.root, s.root_type, s.cell), s.bytes, SENTINEL, 0)

\* the logical tree t with the parent of leaf k replaced by its other child
RECURSIVE Collapse(_, _)
Collapse(t, k) ==
  IF t[1] # "node" THEN t
  ELSE IF t[4] = <<"leaf", k>> THEN t[5]
  ELSE IF t[5] = <<"leaf", k>> THEN t[4]
  ELSE <<"node", t[2], t[3], Collapse(t[4], k), Collapse(t[5], k)>>

\* the logical tree t without the key k
Without(t, k) == IF t = <<"leaf", k>> THEN <<"empty">> ELSE Collapse(t, k)

\* C16: a successful delete yields, as a logical tree, the previous tree with
\* the parent node of the deleted leaf replaced at its position by its other
\* child, whichever salvage case applied; every other node keeps its offset,
\* mask and children; a deleted root leaf leaves the tree Empty.
C16_DeleteCollapsesParent ==
  (Returned("delete") /\ res = 0)
  => LogicalOf(Snapshot) = Without(LogicalOf(before), call.key)

\* a delete has just moved the node that was the parent of the removed node,
\* not the root node, into the cell of the removed node
C16_Witness ==
  /\ Returned("delete")
  /\ res = 0
  /\ salvage = "moved parent"
  /\ Cardinality(Nodes) >= 2

\* the mask of a node that tests bit b (7 the most significant): every bit
\* but b is set
BitMask(b) == 255 - 2 ^ b

\* otherbits is the prefix marker or the mask of one bit
IsDivergence(otherbits) ==
  otherbits = PREFIX_MASK \/ \E b \in 0..7 : otherbits = BitMask(b)

\* the place of a divergence among those of one offset: the prefix marker
\* first, then the bits from the most significant to the least
Rank(otherbits) ==
  IF otherbits = PREFIX_MASK THEN 0
  ELSE 8 - (CHOOSE b \in 0..7 : otherbits = BitMask(b))

\* the (offset, divergence) pair of node m sorts before that of node n
PairLess(m, n) ==
  m.byte < n.byte \/ (m.byte = n.byte /\ Rank(m.otherbits) < Rank(n.otherbits))

\* C17: along every root-to-leaf path the (offset, divergence) pairs of the
\* nodes are strictly increasing: offsets never decrease, at one offset the
\* prefix marker comes before every bit and a more significant bit before a
\* less significant one, and no pair occurs twice.
C17_PathPairsIncrease ==
  \A n \in Nodes :
    /\ IsDivergence(cell[n].otherbits)
    /\ \A d \in 1..2 :
         cell[n].type[d] = TYPE_NODE => PairLess(cell[n], cell[cell[n].child[d]])

\* an insert has just built a tree in which a prefix marker has a node
\* testing a bit of the same offset below it, which in turn has a node
\* testing a less significant bit of that offset below it
C17_Witness ==
  /\ Returned("insert")
  /\ res = 0
  /\ \E n \in Nodes, d \in 1..2, e \in 1..2 :
       /\ cell[n].type[d] = TYPE_NODE
       /\ cell[n].otherbits = PREFIX_MASK
       /\ cell[cell[n].child[d]].byte = cell[n].byte
       /\ cell[cell[n].child[d]].otherbits = BitMask(1)
       /\ cell[cell[n].child[d]].type[e] = TYPE_NODE
       /\ cell[cell[cell[n].child[d]].child[e]].byte = cell[n].byte
       /\ cell[cell[cell[n].child[d]].child[e]].otherbits = BitMask(0)

\* seq is in strictly increasing byte order
Increasing(seq) == \A i \in 1..(Len(seq) - 1) : LexLess(seq[i], seq[i + 1])

\* C18: in every reachable state the depth-first traversal of the prefix
\* walk, child 0 before child 1, yields the keys in strictly increasing
\* unsigned byte-lexicographic order, a strict prefix before its extensions.
C18_TraversalIsLexicographic ==
  /\ Increasing(cb_tree_walk_prefixed(<<>>, Continue).visited)
  /\ Returned("walk") => Increasing(visited)

\* a walk has just gone over five keys, among them a key next to a strict
\* prefix of it and two keys of one length that differ in their last byte
C18_Witness ==
  /\ Returned("walk")
  /\ Len(visited) >= 5
  /\ \E i \in 1..(Len(visited) - 1) : StrictPrefix(visited[i], visited[i + 1])
  /\ \E i \in 1..(Len(visited) - 1) :
       /\ Len(visited[i]) = 2
       /\ Len(visited[i + 1]) = 2
       /\ visited[i][2] < visited[i + 1][2]

\* every reference below the link (par, dir), as <<type, address>>, in
\* traversal order and with repetitions; depth is cut at fuel links, where a
\* reference of type 0 is listed
RECURSIVE Links(_, _, _, _)
Links(h, par, dir, fuel) ==
  IF fuel = 0 THEN << <<0, NULL>> >>
  ELSE IF h[par].type[dir + 1] = TYPE_NODE
  THEN << <<TYPE_NODE, h[par].child[dir + 1]>> >>
         \o Links(h, h[par].child[dir + 1], 0, fuel - 1)
         \o Links(h, h[par].child[dir + 1], 1, fuel - 1)
  ELSE << <<h[par].type[dir + 1], h[par].child[dir + 1]>> >>

\* the references of the whole tree; a path of more than NumAddr + 1 links
\* goes through one node twice
TreeLinks ==
  IF root_type = TYPE_EMPTY THEN <<>> ELSE Links(WithSentinel, SENTINEL, 0, NumAddr + 1)

LinksOfType(t) == {i \in 1..Len(TreeLinks) : TreeLinks[i][1] = t}

\* C19: the structure is a proper binary tree: the root is Empty, a leaf or a
\* node; every node has two children, each a leaf or a node, never Empty; no
\* node or leaf is referenced from two places and there is no cycle; a tree
\* of n >= 1 members has n leaves with distinct keys and n - 1 nodes.
C19_ProperBinaryTree ==
  /\ root_type \in {TYPE_EMPTY, TYPE_LEAF, TYPE_NODE}
  /\ root_type = TYPE_EMPTY <=> ref = {}
  /\ \A i \in 1..Len(TreeLinks) :
       /\ TreeLinks[i][1] \in {TYPE_LEAF, TYPE_NODE}
       /\ TreeLinks[i][2] \in Addr
  /\ Cardinality(Range(TreeLinks)) = Len(TreeLinks)
  /\ Cardinality(LinksOfType(TYPE_LEAF)) = Cardinality(ref)
  /\ Cardinality({bytes[TreeLinks[i][2]] : i \in LinksOfType(TYPE_LEAF)})
       = Cardinality(ref)
  /\ ref # {} => Cardinality(LinksOfType(TYPE_NODE)) = Cardinality(ref) - 1

\* a delete has just moved a node into the cell of the removed node and left
\* a tree of four leaves and three nodes
C19_Witness ==
  /\ Returned("delete")
  /\ res = 0
  /\ salvage \in {"moved root", "moved ancestor"}
  /\ Cardinality(LinksOfType(TYPE_LEAF)) = 4
  /\ Cardinality(LinksOfType(TYPE_NODE)) = 3


\* ---------------------------------------------------------------------------
\* byte i of key k, bytes at or past the key's end read as zero
ByteAt(k, i) == IF i < Len(k) THEN k[i + 1] ELSE 0

\* the bit a critical-bit node tests: otherbits is 255 with that bit cleared
BitOf(n) == CHOOSE b \in 0..7 : cell[n].otherbits = BitMask(b)

\* the critical-bit nodes of the tree (the others are prefix markers)
BitNodes == {n \in Nodes : cell[n].otherbits # PREFIX_MASK}

\* the keys of the leaves under child dir of node n
KeysUnder(n, dir) == {bytes[a] : a \in LeavesFrom(WithSentinel, n, dir)}

\* the keys agree on every byte before o and on the bits of byte o above b
AgreeAbove(K, o, b) ==
  \A k1 \in K : \A k2 \in K :
    /\ \A i \in 0..(o - 1) : ByteAt(k1, i) = ByteAt(k2, i)
    /\ \A j \in (b + 1)..7 : Bit(ByteAt(k1, o), j) = Bit(ByteAt(k2, o), j)

\* C20: for every critical-bit node at offset o and bit b, all keys in its
\* subtree agree, with bytes past a key's end read as zero, on every byte
\* before o and on every bit of byte o more significant than b; every key
\* under child 0 has bit b of byte o clear and every key under child 1 has it
\* set; and the descent for a member key ends at that member's leaf.
C20_SubtreeAgreesAboveBit ==
  /\ \A n \in BitNodes :
       /\ \E b \in 0..7 : cell[n].otherbits = BitMask(b)
       /\ AgreeAbove(KeysUnder(n, 0) \cup KeysUnder(n, 1), cell[n].byte, BitOf(n))
       /\ \A k \in KeysUnder(n, 0) : Bit(ByteAt(k, cell[n].byte), BitOf(n)) = 0
       /\ \A k \in KeysUnder(n, 1) : Bit(ByteAt(k, cell[n].byte), BitOf(n)) = 1
  /\ \A a \in Leaves :
       LeafOf(WithSentinel, Descend(WithSentinel, SENTINEL, 0, bytes[a])) = a

\* an insert has just left a critical-bit node past the first byte with three
\* keys under it, two of them under one child
C20_Witness ==
  /\ Returned("insert")
  /\ res = 0
  /\ \E n \in BitNodes :
       /\ cell[n].byte >= 1
       /\ Cardinality(KeysUnder(n, 0) \cup KeysUnder(n, 1)) >= 3
       /\ \E d \in {0, 1} : Cardinality(KeysUnder(n, d)) >= 2

\* ---------------------------------------------------------------------------
\* the prefix-marker nodes of the tree
PrefixNodes == {n \in Nodes : cell[n].otherbits = PREFIX_MASK}

\* node n keeps the leaf a on side 0 and the leaf b somewhere on side 1
Separates(n, a, b) ==
  /\ cell[n].type[1] = TYPE_LEAF
  /\ cell[n].child[1] = a
  /\ b \in LeavesFrom(WithSentinel, n, 1)

\* C21: for every prefix-marker node at offset o, child 0 is a leaf whose key
\* has length exactly o, and every key under child 1 is longer than o and
\* starts with child 0's key; and a stored key that has a stored strict
\* extension is separated from it by such a node, whichever of the two was
\* inserted first.
C21_PrefixNodeSeparates ==
  /\ \A n \in PrefixNodes :
       /\ cell[n].type[1] = TYPE_LEAF
       /\ Len(bytes[cell[n].child[1]]) = cell[n].byte
       /\ \A k \in KeysUnder(n, 1) :
            /\ Len(k) > cell[n].byte
            /\ SubSeq(k, 1, cell[n].byte) = bytes[cell[n].child[1]]
  /\ \A a \in Leaves : \A b \in Leaves :
       StrictPrefix(bytes[a], bytes[b]) =>
         \E n \in PrefixNodes : Separates(n, a, b)

\* an insert has just stored a key between a shorter member, which is a
\* prefix of it, and a longer member, which it is a prefix of
C21_Witness ==
  /\ Returned("insert")
  /\ res = 0
  /\ \E s \in MembersOf(before) : StrictPrefix(s, call.key)
  /\ \E l \in MembersOf(before) : StrictPrefix(call.key, l)
  /\ \E n \in PrefixNodes : bytes[cell[n].child[1]] = call.key
  /\ \E n \in PrefixNodes : call.key \in KeysUnder(n, 1)

\* ---------------------------------------------------------------------------
\* the internal nodes and the leaves of the snapshot s
NodesOf(s) ==
  IF s.root_type = TYPE_EMPTY THEN {}
  ELSE NodesFrom(SentinelOver(s.root, s.root_type, s.cell), SENTINEL, 0)

LeavesOf(s) ==
  IF s.root_type = TYPE_EMPTY THEN {}
  ELSE LeavesFrom(SentinelOver(s.root, s.root_type, s.cell), SENTINEL, 0)

\* the child references of the snapshot s: the root and both sides of a node
RefsOf(s) == {<<SENTINEL, 0>>} \cup (NodesOf(s) \X {0, 1})

\* the reference kept at side dir of p in the heap h
RefAt(h, p, dir) == <<h[p].type[dir + 1], h[p].child[dir + 1]>>

\* the heap h is the heap g after a splice of the new block x at (p, dir):
\* x holds its own leaf on side d and what sat at (p, dir) on the other side
SplicedAt(g, h, x, d, p, dir) ==
  /\ RefAt(h, x, d) = <<TYPE_LEAF, x>>
  /\ RefAt(h, x, 1 - d) = RefAt(g, p, dir)
  /\ RefAt(h, p, dir) = <<TYPE_NODE, x>>

\* C22: a successful insert into a non-empty tree adds exactly one internal
\* node and one leaf; the new node holds the new key's leaf on one side and
\* on the other side the child reference that sat at the splice point; the
\* splice point now refers to the new node; every node that was there keeps
\* its offset, its mask and both children but for the splice-point reference.
C22_InsertSplicesOneNode ==
  (Returned("insert") /\ res = 0 /\ before.root_type # TYPE_EMPTY)
  => \E x \in live \ before.live :
       /\ live = before.live \cup {x}
       /\ bytes[x] = call.key
       /\ Nodes = NodesOf(before) \cup {x}
       /\ Leaves = LeavesOf(before) \cup {x}
       /\ x \notin NodesOf(before) \cup LeavesOf(before)
       /\ \A n \in NodesOf(before) :
            /\ cell[n].byte = before.cell[n].byte
            /\ cell[n].otherbits = before.cell[n].otherbits
       /\ \E e \in RefsOf(before) : \E d \in {0, 1} :
            /\ SplicedAt(SentinelOver(before.root, before.root_type, before.cell),
                         WithSentinel, x, d, e[1], e[2])
            /\ \A f \in RefsOf(before) \ {e} :
                 RefAt(WithSentinel, f[1], f[2])
                   = RefAt(SentinelOver(before.root, before.root_type, before.cell),
                           f[1], f[2])

\* an insert has just spliced a node between a node of the tree and a node
\* that was below it
C22_Witness ==
  /\ Returned("insert")
  /\ res = 0
  /\ Cardinality(NodesOf(before)) >= 2
  /\ \E x \in live \ before.live : \E n \in NodesOf(before) : \E d \in {0, 1} :
       /\ cell[n].type[d + 1] = TYPE_NODE
       /\ cell[n].child[d + 1] = x
       /\ \E e \in {0, 1} : cell[x].type[e + 1] = TYPE_NODE

\* ---------------------------------------------------------------------------
\* the leaves whose co-allocated cell carries the unused marker
Vacant == {a \in Leaves : cell[a].otherbits = UNUSED_NODE}

\* the node that held the leaf the descent for ubytes reaches in snapshot s
ParentIn(s, ubytes) ==
  Descend(SentinelOver(s.root, s.root_type, s.cell), SENTINEL, 0, ubytes)[1]

\* C23: in every non-empty tree exactly one leaf's co-allocated cell is marked
\* unused, and the cells of the other leaves are precisely the internal
\* nodes, one cell per node; no linked node carries the unused marker; and
\* when a delete finds the deleted leaf's cell vacant, the cell of the
\* collapsed parent becomes the vacant one and stays allocated with its leaf.
C23_OneVacantCell ==
  /\ root_type # TYPE_EMPTY =>
       /\ Cardinality(Vacant) = 1
       /\ Nodes = Leaves \ Vacant
       /\ Cardinality(Nodes) = Cardinality(Leaves) - 1
       /\ \A n \in Nodes : cell[n].otherbits # UNUSED_NODE
  /\ (Returned("delete") /\ res = 0 /\ salvage = "vacant cell") =>
       /\ ParentIn(before, call.key) \in NodesOf(before)
       /\ ParentIn(before, call.key) \notin Nodes
       /\ Vacant = {ParentIn(before, call.key)}
       /\ ParentIn(before, call.key) \in live

\* a delete has just found the cell of the deleted leaf vacant and left the
\* cell of its parent, which belongs to another leaf, as the vacant one
C23_Witness ==
  /\ Returned("delete")
  /\ res = 0
  /\ salvage = "vacant cell"
  /\ Cardinality(Leaves) >= 3
  /\ bytes[ParentIn(before, call.key)] \in Members

\* ---------------------------------------------------------------------------
\* the place of block a in the sequence of releases
PlaceIn(order, a) == CHOOSE i \in 1..Len(order) : order[i] = a

\* the blocks clear releases while it is in the subtree of node n: the nodes
\* below n and the leaves below n whose own cell is vacant
ReleasedBelow(n) ==
  NodesFrom(WithSentinel, n, 0) \cup NodesFrom(WithSentinel, n, 1)
    \cup ((LeavesFrom(WithSentinel, n, 0) \cup LeavesFrom(WithSentinel, n, 1))
            \cap Vacant)

\* the sequence of releases is a post-order of the tree
PostOrder(order) ==
  \A n \in Nodes : \A m \in ReleasedBelow(n) :
    PlaceIn(order, m) < PlaceIn(order, n)

\* C24: clear on any reachable non-empty tree releases every outstanding
\* block exactly once, the block of a node after the blocks in both its
\* subtrees and the block with the vacant cell at its leaf, and reads no leaf
\* and no node cell in a block it has already released.
C24_ClearReleasesEachOnce ==
  /\ root_type # TYPE_EMPTY =>
       /\ cb_tree_clear(WithSentinel, live).freed = live
       /\ cb_tree_clear(WithSentinel, live).live = {}
       /\ cb_tree_clear(WithSentinel, live).calls = Cardinality(live)
       /\ Len(cb_tree_clear(WithSentinel, live).order) = Cardinality(live)
       /\ cb_tree_clear(WithSentinel, live).fault = {}
       /\ PostOrder(cb_tree_clear(WithSentinel, live).order)
  /\ Returned("clear") => (fault = {} /\ live = {})

\* a clear has just released a tree of four or more keys in which the cell of
\* some leaf was in use as a node that was not the parent of that leaf
C24_Witness ==
  /\ Returned("clear")
  /\ Cardinality(before.live) >= 4
  /\ live = {}
  /\ \E a \in LeavesOf(before) \cap NodesOf(before) :
       /\ before.cell[a].child[1] # a
       /\ before.cell[a].child[2] # a

\* ---------------------------------------------------------------------------
\* the offsets at which two keys of S differ, bytes past the end read as zero
DifferAt(S) ==
  {i \in UNION {0..Len(k) : k \in S} :
     \E k1 \in S : \E k2 \in S : ByteAt(k1, i) # ByteAt(k2, i)}

FirstOffset(S) == CHOOSE i \in DifferAt(S) : \A j \in DifferAt(S) : i <= j

\* the bits of byte o at which two keys of S differ
DifferBits(S, o) ==
  {j \in 0..7 : \E k1 \in S : \E k2 \in S :
     Bit(ByteAt(k1, o), j) # Bit(ByteAt(k2, o), j)}

TopBit(S, o) == CHOOSE j \in DifferBits(S, o) : \A i \in DifferBits(S, o) : i <= j

\* the logical tree that the set S of keys determines: split at the first
\* offset o at which the keys differ, a key that ends there on side 0 of a
\* prefix marker, otherwise by the most significant differing bit b
RECURSIVE TreeOfSet(_)
SplitByBit(S, o, b) ==
  <<"node", o, BitMask(b),
    TreeOfSet({k \in S : Bit(ByteAt(k, o), b) = 0}),
    TreeOfSet({k \in S : Bit(ByteAt(k, o), b) = 1})>>

SplitByEnd(S, o, E) ==
  <<"node", o, PREFIX_MASK, TreeOfSet(E), TreeOfSet(S \ E)>>

SplitAt(S, o) ==
  IF \E k \in S : Len(k) = o
  THEN SplitByEnd(S, o, {k \in S : Len(k) = o})
  ELSE SplitByBit(S, o, TopBit(S, o))

TreeOfSet(S) ==
  IF S = {} THEN <<"empty">>
  ELSE IF Cardinality(S) = 1 THEN <<"leaf", CHOOSE k \in S : TRUE>>
  ELSE SplitAt(S, FirstOffset(S))

\* the keys of the leaves of the snapshot s
KeysOf(s) == {s.bytes[a] : a \in LeavesOf(s)}

\* C25: the logical tree (shape, each node's offset and mask, child order,
\* leaf keys) depends only on the current set of members: whatever sequence
\* of successful and unsuccessful inserts and deletes led to a set of members,
\* the logical tree is the one that set determines; so an insert of a
\* non-member followed by its delete restores the previous logical tree.
C25_TreeDependsOnMembersOnly ==
  /\ KeysOf(Snapshot) = ref
  /\ LogicalOf(Snapshot) = TreeOfSet(ref)
  /\ (pc = "returned" /\ before.ref = ref)
       => LogicalOf(Snapshot) = LogicalOf(before)

\* a delete has just taken away a key that was inserted into a tree of three
\* or more keys, and moved a node into another cell on the way
C25_Witness ==
  /\ Returned("delete")
  /\ res = 0
  /\ salvage \in {"moved parent", "moved ancestor"}
  /\ Cardinality(Members) >= 3
  /\ LogicalOf(Snapshot) = TreeOfSet(before.ref \ {call.key})
  /\ LogicalOf(Snapshot) # LogicalOf(before)

\* ---------------------------------------------------------------------------
\* the mask m clears bit j alone, and j is the most significant bit at which
\* a and b differ
MaskOfTopBit(m, j, a, b) ==
  /\ m = BitMask(j)
  /\ Bit(a, j) # Bit(b, j)
  /\ \A i \in (j + 1)..7 : Bit(a, i) = Bit(b, i)

\* C26: for every pair of differing bytes a (of the existing leaf) and b (of
\* the new key), the mask computed by insert has all bits set but one, the
\* most significant bit at which a and b differ; it is neither the prefix
\* marker 0xFF nor the unused marker; the recorded direction of the existing
\* leaf is that bit of a, so the new key goes to the side that is that bit
\* of b.
C26_MaskIsTopDifferingBit ==
  Returned("compare") =>
    /\ compared.newotherbits \notin {PREFIX_MASK, UNUSED_NODE}
    /\ compared.newdirection \in {0, 1}
    /\ \E j \in 0..7 :
         /\ MaskOfTopBit(compared.newotherbits, j, call.key[1], call.key[2])
         /\ compared.newdirection = Bit(call.key[1], j)
         /\ 1 - compared.newdirection = Bit(call.key[2], j)

\* two bytes have just been compared that agree in their top bit, which is
\* set, and differ in bit 4 and in lower bits, the leaf's byte having bit 4 set
C26_Witness ==
  /\ Returned("compare")
  /\ Bit(call.key[1], 7) = 1
  /\ Bit(call.key[2], 7) = 1
  /\ Bit(call.key[1], 0) # Bit(call.key[2], 0)
  /\ Bit(call.key[1], 2) # Bit(call.key[2], 2)
  /\ compared.newotherbits = BitMask(4)
  /\ compared.newdirection = 1

\* ---------------------------------------------------------------------------
\* the direction at node n for key k: the recorded bit of k[n.byte], or
\* whether k goes on past n.byte
DirectionOf(n, k) ==
  IF n.otherbits = PREFIX_MASK
  THEN IF Len(k) > n.byte THEN 1 ELSE 0
  ELSE IF n.byte < Len(k)
  THEN Bit(k[n.byte + 1], CHOOSE j \in 0..7 : n.otherbits = BitMask(j))
  ELSE 0

\* C27: for every internal node and every key, the direction computed during
\* descent is 0 or 1 and nothing else: at a critical-bit node the recorded bit
\* of key[offset] when offset < length(key) and 0 otherwise, at a prefix
\* marker 1 when length(key) > offset and 0 otherwise; and contains, insert's
\* probe, insert's splice descent and delete compute the same direction for
\* the same node and key.
C27_DirectionIsRecordedBit ==
  Returned("direction") =>
    /\ res \in {0, 1}
    /\ res = DirectionOf(call.node, call.key)
    /\ LeafOf(OneNode(call.node),
              Descend(OneNode(call.node), SENTINEL, 0, call.key)) = 1 + res
    /\ DeleteDescend(OneNode(call.node), NULL, 0, SENTINEL, 0, call.key).direction
         = res
    /\ SpliceDescend(OneNode(call.node), SENTINEL, 0, 2, 0, call.key)[2] = res
    /\ FindLink(OneNode(call.node), SENTINEL, 0, 2, call.key)[2] = res

\* a key of one byte with bit 5 set and bit 2 clear has just gone to side 0
\* of a node that tests bit 2 of its byte
C27_Witness ==
  /\ Returned("direction")
  /\ call.node = [byte |-> 0, otherbits |-> BitMask(2)]
  /\ Len(call.key) = 1
  /\ Bit(call.key[1], 5) = 1
  /\ Bit(call.key[1], 2) = 0
  /\ res = 0

\* ---------------------------------------------------------------------------
\* the nodes the descent for key k passes between the root and its leaf
PathOf(k) ==
  IF root_type = TYPE_EMPTY THEN {} ELSE PathNodes(WithSentinel, SENTINEL, 0, k)

\* the key of the leaf the descent for key k reaches
ReachedBy(k) == bytes[LeafOf(WithSentinel, Descend(WithSentinel, SENTINEL, 0, k))]

\* the nodes of P at offset o: at most eight test a bit, with different
\* masks, and at most one is a prefix marker
EightAndOne(P, o) ==
  /\ Cardinality({n \in P : cell[n].byte = o /\ cell[n].otherbits # PREFIX_MASK}) <= 8
  /\ Cardinality({n \in P : cell[n].byte = o /\ cell[n].otherbits = PREFIX_MASK}) <= 1
  /\ \A n \in P : \A m \in P :
       (n # m /\ cell[n].byte = o /\ cell[m].byte = o)
       => cell[n].otherbits # cell[m].otherbits

\* the nodes of P are bounded by the key l: bit nodes lie below its length,
\* prefix markers at most at its length
BoundedByKey(P, l) ==
  /\ \A n \in P :
       IF cell[n].otherbits = PREFIX_MASK
       THEN cell[n].byte <= Len(l)
       ELSE cell[n].byte < Len(l)
  /\ \A o \in 0..Len(l) : EightAndOne(P, o)
  /\ Cardinality(P) <= 9 * Len(l) + 1

\* C28 as stated: the number of internal nodes a descent for key k passes
\* between the root and the leaf it reaches is at most 8 times length(k).
C28_PathAtMostEightPerByte ==
  root_type # TYPE_EMPTY =>
    \A k \in Prefixes : Cardinality(PathOf(k)) <= 8 * Len(k)

\* C28: the number of internal nodes a descent passes between the root and
\* the leaf it reaches is at most 9 times the length of that leaf's key plus
\* one, whatever the number of members: the bit nodes on the path lie at
\* offsets below that length, the prefix markers at offsets up to it, and
\* each offset has at most eight bit nodes and one prefix marker.
C28_PathBoundedByLeafKey ==
  root_type # TYPE_EMPTY =>
    \A k \in Prefixes : BoundedByKey(PathOf(k), ReachedBy(k))

\* the descent for the empty key, a member, passes one node, and the descent
\* for a member of two bytes passes four, among them two prefix markers and
\* two bit nodes at one offset
C28_Witness ==
  /\ pc = "returned"
  /\ <<>> \in ref
  /\ Cardinality(PathOf(<<>>)) = 1
  /\ \E k \in ref :
       /\ Len(k) = 2
       /\ Cardinality(PathOf(k)) = 4
       /\ Cardinality(PathOf(k) \cap PrefixNodes) = 2
       /\ \E n \in PathOf(k) \cap BitNodes : \E m \in PathOf(k) \cap BitNodes :
            n # m /\ cell[n].byte = cell[m].byte

\* ---------------------------------------------------------------------------
\* C29: the variants are observationally equivalent: for every sequence of
\* insert, contains, delete, clear and prefix-walk calls with working
\* allocators, the co-allocating variant with prefix-marker nodes returns the
\* same result codes, the same membership answers and the same sequence of
\* visited keys as the variant that allocates node and leaf separately and
\* branches on the terminator byte.
C29_VariantsAgree ==
  nomem = 0 =>
    /\ pc = "returned" => (res = two.res /\ visited = two.visited)
    /\ Idle => \A k \in Prefixes : cb_tree_contains(k) = cb_tree_contains_2(two, k)

\* a walk has just visited three or more keys of both trees, a key and a
\* strict extension of it among them, where one tree has a prefix marker
\* and the other a node that tests a bit of the terminator
C29_Witness ==
  /\ nomem = 0
  /\ Returned("walk")
  /\ Len(visited) >= 3
  /\ two.visited = visited
  /\ \E i \in 1..(Len(visited) - 1) : StrictPrefix(visited[i], visited[i + 1])
  /\ PrefixNodes # {}
  /\ \A x \in two.nodes : two.node[x].otherbits # PREFIX_MASK
  /\ Cardinality(two.nodes) = Cardinality(Nodes)

====
